---- MODULE Spec2Model ----
(***************************************************************************)
(* Model of the VisiTrack-AI scraping back end: the ScraperWorker          *)
(* scheduler loop (backend/worker.py), the fresh-browser session lifecycle *)
(* and rate limiter of BaseScraper (backend/app/scrapers/base_scraper.py)  *)
(* and the response store (backend/app/database.py).                       *)
(*                                                                         *)
(* All workers are coroutines of one asyncio event loop (worker.py main,   *)
(* asyncio.gather).  A coroutine keeps the loop until it reaches           *)
(* `await asyncio.sleep(..)`; the awaits on the db and the scraper never   *)
(* suspend, because those coroutines only make blocking calls              *)
(* (time.sleep, selenium, the synchronous supabase client).  The variable  *)
(* `loop` names the worker that holds the event loop.                      *)
(*                                                                         *)
(* Time is in seconds.  `now` is time.time(); a blocking wait advances     *)
(* `now` in place, an asyncio.sleep sets the timer `wake` of the worker.   *)
(***************************************************************************)
EXTENDS Integers, Sequences, FiniteSets, TLC

\* ---------------------------------------------------------------- bounds
NumPrompts == 2
MaxTime == 390
MaxIteration == 3
StartTime == 30
MaxFaults == 2
MaxCookies == 2
MaxTokens == 3
MaxBrands == 2
MaxRequests == 3

\* ------------------------------------------------------ program constants
RATE_LIMIT_DELAY == 180
BATCH_LIMIT == 15
IDLE_SLEEP == 300
ITEM_SLEEP == 30
ITERATION_SLEEP == 60
FRESHNESS_WINDOW == 7200
LOGIN_WAIT == 90
MAX_WAIT == 120
INITIAL_DELAY == 3
POLL_DELAY == 1
CONTENT_POLL_DELAY == 2
MIN_FALLBACK_LENGTH == 20
CAPTURE_INTERVAL == 5
SEND_BUTTON_WAIT == 10
SEND_DELAY == 1
TRIVIAL_LENGTH == 10
JOIN_TIMEOUT == 2

Workers == {1, 2}
SupportedSources == {"chatgpt", "gemini", "perplexity"}
Prompts == 1..NumPrompts
NoWorker == 0
NoRecord == 0
NoDriver == 0
Unlimited == 0

VARIABLES
    now,                \* time.time()
    loop,               \* worker holding the asyncio event loop, or NoWorker
    ai_source,          \* ScraperWorker.ai_source
    pc,                 \* position of each worker's run() coroutine
    wake,               \* expiry of the asyncio.sleep a worker is suspended in
    is_running,         \* ScraperWorker.is_running
    iteration,          \* run(): iteration
    max_iterations,     \* run(): max_iterations (Unlimited = None)
    prompts_completed,  \* ScraperWorker.prompts_completed
    errors,             \* ScraperWorker.errors
    last_scrape_at,     \* ScraperWorker.last_scrape_at (0 = None)
    pending_prompts,    \* run(): pending_prompts, the batch
    idx,                \* run(): position of the for loop in the batch
    brands,             \* process_prompt(): brands
    response_record,    \* process_prompt(): response_record (NoRecord = None)
    scraper,            \* process_prompt(): scraper is not None
    exc,                \* exception in flight ("" = none)
    retval,             \* value process_prompt returns
    driver,             \* BaseScraper.driver of the worker's scraper
    last_request_time,  \* BaseScraper.last_request_time of that scraper
    load_cookies,       \* initialize(): load_cookies
    driver_cookies,     \* cookies added to the browser of that scraper
    start_time,         \* _wait_for_response(): start_time
    result,             \* text of the ScraperResponse that query() returned
    brands_mentioned,   \* brands_mentioned of that ScraperResponse
    settings,           \* app.config.settings
    scrapers,           \* main.scrapers: the scraper kept for each platform
    requests,           \* the /scrape requests served so far (not program state)
    cookies_file,       \* content of the file at BaseScraper.cookies_path
    stop_screenshots,   \* BaseScraper._stop_screenshots
    screenshot_thread,  \* BaseScraper._screenshot_thread and the thread it names
    scraper_sessions,   \* table `scraper_sessions` of the store
    responses,          \* table `responses` of the store
    browsers,           \* browser processes that are running
    sessions,           \* every browser launched so far, with the item it was launched for
    faults,             \* number of environment failures so far
    hist                \* observation record of each worker (not program state)

workerVars == <<ai_source, pc, wake, is_running, iteration, max_iterations,
                prompts_completed, errors, last_scrape_at, pending_prompts, idx>>
itemVars   == <<brands, response_record, scraper, exc, retval, driver,
                last_request_time>>
worldVars  == <<responses, browsers, sessions>>
captureVars == <<stop_screenshots, screenshot_thread>>
scraperVars == <<load_cookies, driver_cookies, start_time, result,
                 brands_mentioned, settings, scrapers, requests, cookies_file,
                 scraper_sessions,
                 captureVars>>
vars == <<now, faults, loop, workerVars, itemVars, worldVars, scraperVars,
          hist>>

\* ------------------------------------------------------------------ store
\* categories / brands / prompts tables: every prompt of Prompts belongs to
\* the one category that has two brands (names are sequences of characters);
\* any other prompt belongs to a category for which no brand is stored
CategoryOf(p) == IF p \in Prompts THEN "crm" ELSE "misc"
BrandsOf(c) ==
    IF c = "crm"
    THEN <<<<"H", "u", "b", "S", "p", "o", "t">>,
           <<"Z", "o", "h", "o", " ", "C", "R", "M">>>>
    ELSE <<>>

\* Database.get_brand_names: the brand names of the category, [] on a store error
get_brand_names(c, storeOk) == IF storeOk THEN BrandsOf(c) ELSE <<>>

\* variant of RecentResponses that counts the rows of any age
ResponsesOfAnyAge(rs, p, src, t) ==
    {i \in 1..Len(rs) : /\ rs[i].prompt_id = p
                        /\ rs[i].ai_source = src}

\* the rows of `responses` of one prompt and platform created since the cutoff
RecentResponses(rs, p, src, t) ==
    {i \in 1..Len(rs) : /\ rs[i].prompt_id = p
                        /\ rs[i].ai_source = src
                        /\ rs[i].created_at >= t - FRESHNESS_WINDOW}

\* Database.get_prompts: the rows of table `prompts` in table order
PromptsTable == [i \in 1..NumPrompts |-> i]

\* the loop of get_pending_prompts over the rows from row i on: a prompt
\* without a recent response is appended, and the loop breaks at the limit
RECURSIVE PendingFrom(_, _, _, _, _, _)
PendingFrom(tbl, i, rs, src, t, acc) ==
    IF i > Len(tbl) \/ Len(acc) >= BATCH_LIMIT THEN acc
    ELSE PendingFrom(tbl, i + 1, rs, src, t,
                     IF RecentResponses(rs, tbl[i], src, t) = {}
                     THEN Append(acc, tbl[i]) ELSE acc)

\* variant of get_pending_prompts that returns the first rows of the table
\* whether or not they have a recent response
get_first_prompts(tbl, rs, src, t, storeOk) ==
    IF storeOk
    THEN SubSeq(tbl, 1, IF Len(tbl) < BATCH_LIMIT THEN Len(tbl) ELSE BATCH_LIMIT)
    ELSE <<>>

\* Database.get_pending_prompts: prompts in table order without a response
\* of this platform inside the freshness window; [] on a store error
get_pending_prompts(tbl, rs, src, t, storeOk) ==
    IF storeOk THEN PendingFrom(tbl, 1, rs, src, t, <<>>) ELSE <<>>

\* Database.create_response: the inserted row
NewResponse(p, src, t, w, n) ==
    [prompt_id |-> p, ai_source |-> src, status |-> "processing",
     response_text |-> <<>>, brands_mentioned |-> <<>>,
     created_at |-> t, error_message |-> "", updates |-> 0,
     worker |-> w, item |-> n]

\* Database.update_response: the row after the update; a store error is
\* swallowed and leaves the row as it was
update_response(rs, id, text, mentioned, status, msg, storeOk) ==
    IF storeOk
    THEN [rs EXCEPT ![id] = [@ EXCEPT !.response_text = text,
                                      !.brands_mentioned = mentioned,
                                      !.status = status,
                                      !.error_message = msg,
                                      !.updates = @ + 1]]
    ELSE rs

\* ----------------------------------------------------------------- config
\* app.config.settings as deployed for the worker: proxying mandated,
\* credentials and one endpoint configured, a visible browser.
\* OXYLABS_PROXY_PORTS is the list ProxyManager parses from the setting
DeployedSettings ==
    [USE_PROXY |-> TRUE, HEADLESS |-> FALSE,
     OXYLABS_USERNAME |-> "customer", OXYLABS_PASSWORD |-> "secret",
     OXYLABS_PROXY_PORTS |-> <<"8001">>]

SettingsChoices ==
    [USE_PROXY : BOOLEAN, HEADLESS : BOOLEAN,
     OXYLABS_USERNAME : {"", "customer"}, OXYLABS_PASSWORD : {"", "secret"},
     OXYLABS_PROXY_PORTS : {<<>>, <<"8001">>, <<"8001", "8002">>}]

\* Python's None where a string is expected (both are falsy)
None == ""

\* ----------------------------------------------------------- ProxyManager
\* random.choice(self.ports): any element of the list; Draws are the
\* positions it can draw from
random_choice(ports, k) == ports[k]
Draws(ports) == IF ports = <<>> THEN {1} ELSE 1..Len(ports)

\* ProxyManager.get_random_proxy: the endpoint of the proxy URL, None when
\* proxying is off, the credentials are missing or no endpoint is configured
\* (k is the position random.choice draws)
get_random_proxy(st, k) ==
    IF ~st.USE_PROXY THEN None
    ELSE IF st.OXYLABS_USERNAME = "" \/ st.OXYLABS_PASSWORD = "" THEN None
    ELSE IF st.OXYLABS_PROXY_PORTS = <<>> THEN None
    ELSE random_choice(st.OXYLABS_PROXY_PORTS, k)

\* ProxyManager.test_proxy: False without a proxy to test, otherwise the
\* outcome of the request through it
test_proxy(st, reachable, k) ==
    IF get_random_proxy(st, k) = None THEN FALSE ELSE reachable

\* ProxyManager.get_proxy_for_selenium
get_proxy_for_selenium(st, k) ==
    IF ~st.USE_PROXY \/ st.OXYLABS_PROXY_PORTS = <<>> THEN None
    ELSE random_choice(st.OXYLABS_PROXY_PORTS, k)

\* ProxyManager.get_auth_extension_path
get_auth_extension_path(st, k) ==
    IF ~st.USE_PROXY \/ st.OXYLABS_USERNAME = "" THEN None
    ELSE IF get_proxy_for_selenium(st, k) = None THEN None
    ELSE "proxy_auth_extension"

\* ------------------------------------------------------------ BaseScraper
\* variant of RateLimitWait that sleeps for the elapsed time instead of the
\* remainder of the delay
RateLimitWaitElapsed(last, t) ==
    IF last = 0 THEN 0
    ELSE IF t - last < RATE_LIMIT_DELAY THEN t - last
    ELSE 0

\* BaseScraper.enforce_rate_limit: the time it blocks in time.sleep
RateLimitWait(last, t) ==
    IF last = 0 THEN 0
    ELSE IF t - last < RATE_LIMIT_DELAY THEN RATE_LIMIT_DELAY - (t - last)
    ELSE 0

\* variant of CleanupDriver that never clears the reference
CleanupDriverKept(d, quitOk) == d

\* BaseScraper.cleanup: driver.quit() and clearing of the reference; when
\* quit() raises the exception is logged and the reference is kept
CleanupDriver(d, quitOk) == IF d # NoDriver /\ quitOk THEN NoDriver ELSE d
CleanupBrowsers(bs, d, quitOk) == IF d # NoDriver /\ quitOk THEN bs \ {d} ELSE bs

\* variant of setup_proxy that skips the connectivity test
setup_proxy_untested(st, reachable, k) ==
    IF st.USE_PROXY
    THEN IF st.OXYLABS_USERNAME = "" \/ st.OXYLABS_PASSWORD = "" THEN FALSE
         ELSE TRUE
    ELSE TRUE

\* BaseScraper._setup_proxy
setup_proxy(st, reachable, k) ==
    IF st.USE_PROXY
    THEN IF st.OXYLABS_USERNAME = "" \/ st.OXYLABS_PASSWORD = "" THEN FALSE
         ELSE test_proxy(st, reachable, k)
    ELSE TRUE

\* _setup_proxy reaches the connectivity test
ProxyTested(st) ==
    st.USE_PROXY /\ st.OXYLABS_USERNAME # "" /\ st.OXYLABS_PASSWORD # ""

\* BaseScraper._get_chrome_options: how the browser is told to use the proxy
get_chrome_options(st, k) ==
    IF st.USE_PROXY /\ ~st.HEADLESS
    THEN IF get_auth_extension_path(st, k) # None THEN "extension" ELSE "direct"
    ELSE IF st.USE_PROXY /\ st.HEADLESS
    THEN IF get_proxy_for_selenium(st, k) # None THEN "flag" ELSE "direct"
    ELSE "direct"

\* the endpoint written into the extension or passed as --proxy-server: the
\* one get_proxy_for_selenium drew for these options
options_endpoint(st, k) ==
    IF get_chrome_options(st, k) = "direct" THEN None
    ELSE get_proxy_for_selenium(st, k)

\* ------------------------------------------------------ screenshot capture
\* no capture thread (BaseScraper.__init__: _screenshot_thread = None), or
\* one that has ended.  due is the time at which a living thread evaluates
\* its loop condition next, busy_until the time up to which it is inside
\* driver.save_screenshot
NoThread == [alive |-> FALSE, due |-> 0, busy_until |-> 0]

\* where the capture thread is when cleanup() begins: in its time.sleep
\* with `left` seconds to go, or in save_screenshot for another `left`
\* seconds, after which it sleeps the whole interval
CapturePhases ==
    {[at |-> "sleep", left |-> r] : r \in 0..CAPTURE_INTERVAL}
    \cup {[at |-> "shot", left |-> r] : r \in {0, JOIN_TIMEOUT + 1}}

NoPhase == [at |-> "sleep", left |-> 0]

\* the time from the phase to the thread's next look at _stop_screenshots
time_to_check(phase) ==
    IF phase.at = "shot" THEN phase.left + CAPTURE_INTERVAL ELSE phase.left

\* the thread seen at time t, `flagged` telling whether _stop_screenshots
\* was already set (its due time is then known)
thread_at(th, flagged, t, phase) ==
    IF flagged THEN th
    ELSE [alive |-> TRUE, due |-> t + time_to_check(phase),
          busy_until |-> IF phase.at = "shot" THEN t + phase.left ELSE t]

\* _stop_screenshot_capture: self._screenshot_thread.join(timeout=2) once
\* the flag is set: the thread ends when it next evaluates its loop
\* condition; join returns then, or after the timeout with the thread alive
join_thread(th, t) ==
    IF ~th.alive THEN [thread |-> th, waited |-> 0]
    ELSE IF th.due - t <= JOIN_TIMEOUT
    THEN [thread |-> [th EXCEPT !.alive = FALSE],
          waited |-> IF th.due > t THEN th.due - t ELSE 0]
    ELSE [thread |-> th, waited |-> JOIN_TIMEOUT]

InitCapture ==
    /\ stop_screenshots = [w \in Workers |-> FALSE]
    /\ screenshot_thread = [w \in Workers |-> NoThread]

\* no row of `scraper_sessions` for the platform
NoRow == [cookies |-> <<>>, is_logged_in |-> FALSE]

\* the page domain of each platform (document.domain at the platform URL)
current_domain(src) ==
    IF src = "gemini" THEN <<"g", "e", "m", "i", "n", "i", ".", "g", "o", "o", "g", "l", "e", ".", "c", "o", "m">>
    ELSE IF src = "perplexity" THEN <<"w", "w", "w", ".", "p", "e", "r", "p", "l", "e", "x", "i", "t", "y", ".", "a", "i">>
    ELSE <<"c", "h", "a", "t", "g", "p", "t", ".", "c", "o", "m">>

\* driver.get_cookies() after the login wait: the site keeps one session
\* cookie for the page, which tells whether a user is logged in
get_cookies(src, user) ==
    <<[name |-> "session", hasDomain |-> TRUE,
       domain |-> <<".">> \o current_domain(src),
       value |-> IF user THEN "user" ELSE "anonymous",
       sameSite |-> "Lax", secure |-> TRUE]>>

\* Database.save_session: the upserted row, marked logged in; a store
\* error is swallowed and leaves the row as it was
save_session(row, cookies, storeOk) ==
    IF storeOk THEN [cookies |-> cookies, is_logged_in |-> TRUE] ELSE row

\* BaseScraper.save_cookies: the content of the file afterwards; a failed
\* write is logged and leaves the file as it was
save_cookies(file, cookies, fileOk) == IF fileOk THEN cookies ELSE file

\* variant of manual_login that ignores whether cookie loading was requested
manual_login_always(outcome, lc) ==
    outcome \in {"manual_ok", "manual_failed"}

\* initialize(): `if not is_logged_in and load_cookies`, the condition under
\* which _handle_manual_login is entered
manual_login(outcome, lc) ==
    outcome \in {"manual_ok", "manual_failed"} /\ lc

\* initialize(): its return value after the login checks
initialize_result(outcome, lc) ==
    IF outcome = "raised" THEN FALSE
    ELSE IF manual_login(outcome, lc) THEN outcome = "manual_ok"
    ELSE TRUE

\* ---------------------------------------------------------------- cookies
\* `a in b` on strings: a occurs in b
IsSubstring(a, b) ==
    \E i \in 0..(Len(b) - Len(a)) : SubSeq(b, i + 1, i + Len(a)) = a

\* the stored domain without its leading dot
strip_dot(d) == IF d # <<>> /\ Head(d) = "." THEN Tail(d) ELSE d

\* _load_and_apply_cookies: the cookie is skipped for a domain mismatch,
\* `current_domain not in cookie_domain and cookie_domain not in
\* current_domain`; a cookie without a domain is never skipped
domain_skipped(cookie, cur) ==
    /\ cookie.hasDomain
    /\ ~IsSubstring(cur, strip_dot(cookie.domain))
    /\ ~IsSubstring(strip_dot(cookie.domain), cur)

\* sameSite 'None' without the secure flag is removed ("" = no attribute)
fix_same_site(cookie) ==
    IF cookie.sameSite = "None" /\ ~cookie.secure
    THEN [cookie EXCEPT !.sameSite = ""] ELSE cookie

\* the loop of _load_and_apply_cookies from cookie k on: a skipped cookie
\* and a cookie whose add_cookie raises (k in rejected) are left out, the
\* loop goes on with the next one.  acc.cookies are the cookies added,
\* acc.added their positions in the file
RECURSIVE apply_cookies(_, _, _, _, _)
apply_cookies(cookies, cur, rejected, k, acc) ==
    IF k > Len(cookies) THEN acc
    ELSE IF domain_skipped(cookies[k], cur) \/ k \in rejected
    THEN apply_cookies(cookies, cur, rejected, k + 1, acc)
    ELSE apply_cookies(cookies, cur, rejected, k + 1,
             [cookies |-> Append(acc.cookies, fix_same_site(cookies[k])),
              added |-> acc.added \cup {k}])

\* a browser launched by initialize() for item n of worker w: how it was
\* configured, and what the session did with it
NewSession(w, n, st, tested, k) ==
    [worker |-> w, item |-> n,
     mandated |-> st.USE_PROXY,          \* proxying was mandated at launch
     proxy |-> get_chrome_options(st, k), \* proxy configuration of the browser
     tested |-> tested,                  \* endpoint the connectivity test used
     endpoint |-> options_endpoint(st, k), \* endpoint the browser was given
     manual |-> 0,                       \* entries of the manual login flow
     writes |-> 0,                       \* writes of the persisted session
     first_check |-> "none",             \* result of the first login check
     logged_in |-> FALSE,                \* result of the last login check
     submitted |-> 0]                    \* prompts submitted

\* the scraper state before any session: no cookie file, no stored session
\* scrapers = {} at import; no request has been served
InitRegistry ==
    /\ scrapers = <<>>
    /\ requests = <<>>

InitScraper ==
    /\ load_cookies = [w \in Workers |-> TRUE]
    /\ driver_cookies = [w \in Workers |-> <<>>]
    /\ start_time = [w \in Workers |-> 0]
    /\ result = [w \in Workers |-> <<>>]
    /\ brands_mentioned = [w \in Workers |-> <<>>]
    /\ settings = DeployedSettings
    /\ cookies_file = [w \in Workers |-> <<>>]
    /\ scraper_sessions = [w \in Workers |-> NoRow]
    /\ InitCapture
    /\ InitRegistry

\* ------------------------------------------------------ platform adapters
\* text is a sequence of characters
Whitespace == {" ", "\n", "\t"}

RECURSIVE lstrip(_)
lstrip(t) == IF t # <<>> /\ Head(t) \in Whitespace THEN lstrip(Tail(t)) ELSE t

RECURSIVE rstrip(_)
rstrip(t) ==
    IF t # <<>> /\ t[Len(t)] \in Whitespace
    THEN rstrip(SubSeq(t, 1, Len(t) - 1)) ELSE t

\* str.strip()
strip(t) == rstrip(lstrip(t))

\* `not response_text or response_text.strip() == ''`
is_blank(t) == t = <<>> \/ strip(t) = <<>>

\* '\n'.join(texts)
RECURSIVE join(_)
join(texts) ==
    IF texts = <<>> THEN <<>>
    ELSE IF Len(texts) = 1 THEN texts[1]
    ELSE texts[1] \o <<"\n">> \o join(Tail(texts))

\* -------------------------------------------------------- brand detection
UPPERCASE == <<"A", "B", "C", "D", "E", "F", "G", "H", "I", "J", "K", "L", "M", "N", "O", "P", "Q", "R", "S", "T", "U", "V", "W", "X", "Y", "Z">>
LOWERCASE == <<"a", "b", "c", "d", "e", "f", "g", "h", "i", "j", "k", "l", "m", "n", "o", "p", "q", "r", "s", "t", "u", "v", "w", "x", "y", "z">>
DIGITS == {"0", "1", "2", "3", "4", "5", "6", "7", "8", "9"}

is_upper(c) == \E i \in 1..Len(UPPERCASE) : UPPERCASE[i] = c
is_lower(c) == \E i \in 1..Len(LOWERCASE) : LOWERCASE[i] = c

\* str.lower()
lower_char(c) ==
    IF is_upper(c)
    THEN LOWERCASE[CHOOSE i \in 1..Len(UPPERCASE) : UPPERCASE[i] = c]
    ELSE c
lower(t) == [i \in 1..Len(t) |-> lower_char(t[i])]

\* the regular expression classes \w and \s
word_char(c) == is_upper(c) \/ is_lower(c) \/ c \in DIGITS \/ c = "_"
space_char(c) == c \in Whitespace

\* \b between the characters i and i + 1 of t
boundary(t, i) ==
    (i \in 1..Len(t) /\ word_char(t[i]))
        # (i + 1 \in 1..Len(t) /\ word_char(t[i + 1]))

\* re.search(r'\b' + re.escape(pat) + r'\b', t)
search_word(pat, t) ==
    \E i \in 0..(Len(t) - Len(pat)) :
        /\ SubSeq(t, i + 1, i + Len(pat)) = pat
        /\ boundary(t, i)
        /\ boundary(t, i + Len(pat))

\* re.sub(r'\s+', ' ', t)
RECURSIVE collapse_spaces(_)
collapse_spaces(t) ==
    IF t = <<>> THEN <<>>
    ELSE IF space_char(Head(t)) THEN <<" ">> \o collapse_spaces(lstrip(Tail(t)))
    ELSE <<Head(t)>> \o collapse_spaces(Tail(t))

\* text_normalized: re.sub(r'[^\w\s]', ' ', t), then the whitespace runs
\* collapsed
normalize(t) ==
    collapse_spaces([i \in 1..Len(t) |->
        IF word_char(t[i]) \/ space_char(t[i]) THEN t[i] ELSE " "])

\* str.replace(' ', '')
remove_spaces(t) == SelectSeq(t, LAMBDA c : c # " ")

\* the length of the first whitespace-free run of t
RECURSIVE word_len(_)
word_len(t) ==
    IF t = <<>> \/ space_char(Head(t)) THEN 0 ELSE 1 + word_len(Tail(t))

\* str.split()
RECURSIVE split(_)
split(t) ==
    LET u == lstrip(t)
    IN IF u = <<>> THEN <<>>
       ELSE <<SubSeq(u, 1, word_len(u))>>
                \o split(SubSeq(u, word_len(u) + 1, Len(u)))

\* the parts match t from offset pos on with any whitespace between them,
\* and the match ends at a \b
RECURSIVE match_parts(_, _, _)
match_parts(parts, t, pos) ==
    LET end == pos + Len(parts[1])
    IN /\ end <= Len(t)
       /\ SubSeq(t, pos + 1, end) = parts[1]
       /\ IF Len(parts) = 1 THEN boundary(t, end)
          ELSE \E k \in 0..(Len(t) - end) :
                  /\ \A j \in 1..k : space_char(t[end + j])
                  /\ match_parts(Tail(parts), t, end + k)

\* re.search(r'\b' + r'\s*'.join(parts) + r'\b', t)
search_flexible(parts, t) ==
    \E i \in 0..Len(t) : boundary(t, i) /\ match_parts(parts, t, i)

\* re.sub(r'([a-z])([A-Z])', r'\1 \2', brand)
RECURSIVE camel_spaced(_)
camel_spaced(t) ==
    IF Len(t) < 2 THEN t
    ELSE IF is_lower(t[1]) /\ is_upper(t[2])
    THEN <<t[1], " ">> \o camel_spaced(Tail(t))
    ELSE <<t[1]>> \o camel_spaced(Tail(t))

\* _get_brand_variations: the alias table
ALIASES ==
    <<
      [brand |-> <<"s", "a", "l", "e", "s", "f", "o", "r", "c", "e">>,
       variations |-> <<<<"s", "f", "d", "c">>,
                       <<"s", "a", "l", "e", "s", " ", "f", "o", "r", "c", "e">>,
                       <<"s", "a", "l", "e", "s", "f", "o", "r", "c", "e", ".", "c", "o", "m">>>>],
      [brand |-> <<"h", "u", "b", "s", "p", "o", "t">>,
       variations |-> <<<<"h", "u", "b", " ", "s", "p", "o", "t">>,
                       <<"h", "u", "b", "s", "p", "o", "t", " ", "c", "r", "m">>>>],
      [brand |-> <<"z", "o", "h", "o", " ", "c", "r", "m">>,
       variations |-> <<<<"z", "o", "h", "o">>,
                       <<"z", "o", "h", "o", "c", "r", "m">>>>],
      [brand |-> <<"p", "i", "p", "e", "d", "r", "i", "v", "e">>,
       variations |-> <<<<"p", "i", "p", "e", " ", "d", "r", "i", "v", "e">>>>],
      [brand |-> <<"f", "r", "e", "s", "h", "s", "a", "l", "e", "s">>,
       variations |-> <<<<"f", "r", "e", "s", "h", " ", "s", "a", "l", "e", "s">>,
                       <<"f", "r", "e", "s", "h", "w", "o", "r", "k", "s", " ", "c", "r", "m">>>>],
      [brand |-> <<"m", "o", "n", "d", "a", "y", " ", "c", "r", "m">>,
       variations |-> <<<<"m", "o", "n", "d", "a", "y", ".", "c", "o", "m", " ", "c", "r", "m">>>>],
      [brand |-> <<"m", "o", "n", "d", "a", "y", ".", "c", "o", "m">>,
       variations |-> <<<<"m", "o", "n", "d", "a", "y">>,
                       <<"m", "o", "n", "d", "a", "y", "c", "o", "m">>>>],
      [brand |-> <<"s", "u", "g", "a", "r", "c", "r", "m">>,
       variations |-> <<<<"s", "u", "g", "a", "r", " ", "c", "r", "m">>,
                       <<"s", "u", "g", "a", "r">>>>],
      [brand |-> <<"j", "i", "r", "a">>,
       variations |-> <<<<"j", "i", "r", "a", " ", "s", "o", "f", "t", "w", "a", "r", "e">>,
                       <<"a", "t", "l", "a", "s", "s", "i", "a", "n", " ", "j", "i", "r", "a">>>>],
      [brand |-> <<"a", "s", "a", "n", "a">>,
       variations |-> <<<<"a", "s", "a", "n", "a", ".", "c", "o", "m">>>>],
      [brand |-> <<"t", "r", "e", "l", "l", "o">>,
       variations |-> <<<<"t", "r", "e", "l", "l", "o", ".", "c", "o", "m">>>>],
      [brand |-> <<"c", "l", "i", "c", "k", "u", "p">>,
       variations |-> <<<<"c", "l", "i", "c", "k", " ", "u", "p">>,
                       <<"c", "l", "i", "c", "k", "u", "p", ".", "c", "o", "m">>>>],
      [brand |-> <<"n", "o", "t", "i", "o", "n">>,
       variations |-> <<<<"n", "o", "t", "i", "o", "n", ".", "s", "o">>>>],
      [brand |-> <<"l", "i", "n", "e", "a", "r">>,
       variations |-> <<<<"l", "i", "n", "e", "a", "r", ".", "a", "p", "p">>>>],
      [brand |-> <<"b", "a", "s", "e", "c", "a", "m", "p">>,
       variations |-> <<<<"b", "a", "s", "e", " ", "c", "a", "m", "p">>>>],
      [brand |-> <<"s", "m", "a", "r", "t", "s", "h", "e", "e", "t">>,
       variations |-> <<<<"s", "m", "a", "r", "t", " ", "s", "h", "e", "e", "t">>>>],
      [brand |-> <<"w", "r", "i", "k", "e">>,
       variations |-> <<<<"w", "r", "i", "k", "e", ".", "c", "o", "m">>>>],
      [brand |-> <<"c", "o", "p", "p", "e", "r">>,
       variations |-> <<<<"c", "o", "p", "p", "e", "r", " ", "c", "r", "m">>>>],
      [brand |-> <<"c", "l", "o", "s", "e">>,
       variations |-> <<<<"c", "l", "o", "s", "e", " ", "c", "r", "m">>,
                       <<"c", "l", "o", "s", "e", ".", "c", "o", "m">>>>],
      [brand |-> <<"i", "n", "s", "i", "g", "h", "t", "l", "y">>,
       variations |-> <<<<"i", "n", "s", "i", "g", "h", "t", "l", "y", " ", "c", "r", "m">>>>]
    >>

\* _get_brand_variations: the suffixes tried
SUFFIXES == <<<<" ", "c", "r", "m">>, <<" ", "s", "o", "f", "t", "w", "a", "r", "e">>, <<".", "c", "o", "m">>, <<".", "i", "o">>, <<" ", "a", "p", "p">>>>

endswith(t, suffix) ==
    Len(suffix) <= Len(t)
        /\ SubSeq(t, Len(t) - Len(suffix) + 1, Len(t)) = suffix

RECURSIVE flatten(_)
flatten(lists) ==
    IF lists = <<>> THEN <<>> ELSE Head(lists) \o flatten(Tail(lists))

\* BaseScraper._get_brand_variations
get_brand_variations(brand) ==
    LET brand_lower == lower(brand)
        fromTable == flatten([i \in 1..Len(ALIASES) |->
            IF ALIASES[i].brand = brand_lower
            THEN ALIASES[i].variations ELSE <<>>])
        fromSuffixes == flatten([i \in 1..Len(SUFFIXES) |->
            IF endswith(brand_lower, SUFFIXES[i])
            THEN <<SubSeq(brand_lower, 1, Len(brand_lower) - Len(SUFFIXES[i]))>>
            ELSE <<>>])
    IN fromTable \o fromSuffixes

\* BaseScraper._is_brand_mentioned
is_brand_mentioned(text_lower, text_normalized, brand) ==
    LET brand_lower == lower(brand)
        brand_no_space == remove_spaces(brand_lower)
        brand_parts == split(brand_lower)
        camel_split == lower(camel_spaced(brand))
        variations == get_brand_variations(brand)
    IN \/ search_word(brand_lower, text_lower)
       \/ /\ Len(brand_no_space) > 3
          /\ search_word(brand_no_space, remove_spaces(text_normalized))
       \/ /\ Len(brand_parts) > 1
          /\ search_flexible(brand_parts, text_lower)
       \/ /\ camel_split # brand_lower
          /\ \/ search_word(camel_split, text_lower)
             \/ search_word(remove_spaces(camel_split), text_normalized)
       \/ \E i \in 1..Len(variations) :
              search_word(lower(variations[i]), text_lower)

\* variant of list_of that lists every element twice
list_twice(S) ==
    (CHOOSE l \in [1..Cardinality(S) -> S] :
        {l[i] : i \in 1..Cardinality(S)} = S)
    \o (CHOOSE l \in [1..Cardinality(S) -> S] :
        {l[i] : i \in 1..Cardinality(S)} = S)

\* list(mentioned): the elements of the set, once each, in some order
list_of(S) ==
    CHOOSE l \in [1..Cardinality(S) -> S] : {l[i] : i \in 1..Cardinality(S)} = S

\* variant of extract_brands that reports every candidate
extract_brands_all(text, brand_list) ==
    list_of({brand_list[i] : i \in 1..Len(brand_list)})

\* BaseScraper.extract_brands
extract_brands(text, brand_list) ==
    IF text = <<>> \/ brand_list = <<>> THEN <<>>
    ELSE LET text_lower == lower(text)
             text_normalized == normalize(text_lower)
         IN list_of({brand_list[i] : i \in
                {j \in 1..Len(brand_list) :
                    is_brand_mentioned(text_lower, text_normalized,
                                       brand_list[j])}})

NO_RESPONSE == <<"N", "o", " ", "r", "e", "s", "p", "o", "n", "s", "e", " ", "e", "x", "t", "r", "a", "c", "t", "e", "d">>
NO_SUBSTANTIVE_RESPONSE == <<"N", "o", " ", "s", "u", "b", "s", "t", "a", "n", "t", "i", "v", "e", " ", "r", "e", "s", "p", "o", "n", "s", "e", " ", "e", "x", "t", "r", "a", "c", "t", "e", "d">>

\* the fallback extraction of each adapter, from the texts of the elements
\* that find_elements returned (fbOk = it did not raise)
fallback_text(src, elements, fbOk) ==
    IF ~fbOk \/ elements = <<>> THEN NO_RESPONSE
    ELSE IF src = "chatgpt" THEN elements[Len(elements)]
    ELSE IF src = "gemini" THEN join(elements)
    ELSE LET joined == join(SelectSeq(elements, LAMBDA e : strip(e) # <<>>))
         IN IF Len(strip(joined)) < MIN_FALLBACK_LENGTH
            THEN NO_SUBSTANTIVE_RESPONSE ELSE joined

\* _extract_response: the text the script returned, or the fallback when
\* that is blank
extract_response(src, primary, elements, fbOk) ==
    IF is_blank(primary) THEN fallback_text(src, elements, fbOk) ELSE primary

\* variant of wait_expired without a ceiling
wait_never_expired(elapsed) == FALSE

\* _wait_for_response: the while condition fails, `time.time() - start_time
\* < max_wait` is no longer true
wait_expired(elapsed) == elapsed >= MAX_WAIT

\* what one poll of _wait_for_response sees: the response is complete, the
\* platform is still generating, the response container is not there yet,
\* or the driver call raises
PollOutcomes == {"complete", "busy", "absent", "error"}

\* the poll leaves the loop through `break`.  ChatGPT looks for the stop
\* button only, so a response that has not appeared counts as complete
poll_breaks(src, outcome) ==
    IF src = "chatgpt" THEN outcome \in {"complete", "absent"}
    ELSE outcome = "complete"

\* the poll raises out of _wait_for_response: ChatGPT polls without a try
poll_raises(src, outcome) == src = "chatgpt" /\ outcome = "error"

\* the delay before the next poll
poll_delay(src, outcome) ==
    IF src = "perplexity" /\ outcome = "busy" THEN CONTENT_POLL_DELAY
    ELSE POLL_DELAY

\* what a poll of the Perplexity adapter finds: whether the driver call
\* raises, whether there is a response container, whether its last one has
\* a .prose element, and the text rendered in it
NoContainer == [raises |-> FALSE, container |-> FALSE, prose |-> FALSE,
                text |-> <<>>]

PerplexityPages ==
    {NoContainer,
     [NoContainer EXCEPT !.raises = TRUE],
     [NoContainer EXCEPT !.container = TRUE]}
    \cup {[raises |-> FALSE, container |-> TRUE, prose |-> TRUE, text |-> t] :
            t \in {<<>>,
                   <<"H", "e", "l", "l", "o", "!">>,
                   <<" ", " ", "H", "u", "b", "S", "p", "o", "t", " ", " ", " ", " ", " ">>,
                   <<"H", "u", "b", "S", "p", "o", "t", " ", "o", "k">>,
                   <<"H", "u", "b", "S", "p", "o", "t", " ", "o", "k", ".">>}}

\* variant of perplexity_poll that takes any response container for a
\* complete response
perplexity_poll_any(seen) ==
    IF seen.raises THEN "error"
    ELSE IF ~seen.container THEN "absent"
    ELSE "complete"

\* PerplexityScraper._wait_for_response: what one pass of the loop makes of
\* the page; has_content is `text.trim().length > 10`
perplexity_poll(seen) ==
    IF seen.raises THEN "error"
    ELSE IF ~seen.container THEN "absent"
    ELSE IF seen.prose /\ Len(strip(seen.text)) > TRIVIAL_LENGTH THEN "complete"
    ELSE "busy"

\* ------------------------------------------------------------------- Init
\* what the page can hold when the text is extracted
ShortAnswer == <<"H", "u", "b", "S", "p", "o", "t">>
Answer == <<"H", "u", "b", "S", "p", "o", "t", " ", "a", "n", "d", " ", "Z", "o", "h", "o", " ", "C", "R", "M", " ", "l", "e", "a", "d", ".">>
Texts == {<<>>, <<" ", "\n">>, ShortAnswer, Answer}
ElementTexts == {<<>>, << <<>> >>, <<ShortAnswer>>, <<Answer>>,
                 << <<>>, Answer >>}

\* nothing extracted so far
NoPage == [primary |-> <<>>, elements |-> <<>>, fbOk |-> TRUE]

MaxIterationsChoices == {Unlimited, 1, 2}

NewHist ==
    [stopped |-> FALSE,     \* stop() has been called
     stoppedAt |-> "",      \* position of run() at the first stop() after its start
     fetches |-> 0,         \* calls of get_pending_prompts
     attempted |-> <<>>,    \* prompts passed to process_prompt in this iteration
     results |-> <<>>,      \* what process_prompt returned for them
     items |-> 0,           \* calls of process_prompt
     failed |-> 0,          \* calls of process_prompt that returned False
     updFailed |-> {},      \* items whose update_response hit a store error
     prevStart |-> 0,       \* start time of the query before the last one
     lastStart |-> 0,       \* start time of the last query
     calls |-> 0,           \* calls of enforce_rate_limit
     elapsed |-> 0,         \* time since the recorded start, at the last call
     waited |-> 0,          \* time the last call blocked
     summaries |-> 0,       \* terminal summaries emitted
     cancelled |-> FALSE,   \* the task of run() was cancelled
     proxyFailed |-> {},    \* items whose _setup_proxy returned False
     tested |-> "",         \* endpoint the last connectivity test used
     ceiling |-> FALSE,     \* _wait_for_response ran into its ceiling
     page |-> NoPage,       \* what the page held when the text was extracted
     added |-> {},          \* positions in the file of the cookies added
     rejected |-> {},       \* positions of the cookies add_cookie refused
     quitWithCapture |-> FALSE, \* driver.quit() ran while the capture thread lived
     control |-> "",        \* what the wait for the send control came to
     sent |-> "",           \* how _send_message submitted the prompt
     seen |-> NoContainer,  \* what the poll that left the loop saw (Perplexity)
     left |-> "",           \* what the poll that left the loop came to
     quit |-> "none"]       \* how driver.quit() ended in the last cleanup() of the item

Init ==
    /\ now = StartTime
    /\ loop = NoWorker
    /\ \E s \in {"chatgpt", "copilot"} : ai_source = [w \in Workers |-> s]
    /\ pc = [w \in Workers |-> IF w = 1 THEN "created" ELSE "absent"]
    /\ wake = [w \in Workers |-> 0]
    /\ is_running = [w \in Workers |-> FALSE]
    /\ iteration = [w \in Workers |-> 0]
    /\ \E n \in MaxIterationsChoices :
          max_iterations = [w \in Workers |-> n]
    /\ prompts_completed = [w \in Workers |-> 0]
    /\ errors = [w \in Workers |-> 0]
    /\ last_scrape_at = [w \in Workers |-> 0]
    /\ pending_prompts = [w \in Workers |-> <<>>]
    /\ idx = [w \in Workers |-> 0]
    /\ brands = [w \in Workers |-> <<>>]
    /\ response_record = [w \in Workers |-> NoRecord]
    /\ scraper = [w \in Workers |-> FALSE]
    /\ exc = [w \in Workers |-> ""]
    /\ retval = [w \in Workers |-> FALSE]
    /\ driver = [w \in Workers |-> NoDriver]
    /\ last_request_time = [w \in Workers |-> 0]
    /\ responses = <<>>
    /\ browsers = {}
    /\ sessions = <<>>
    /\ faults = 0
    /\ hist = [w \in Workers |-> NewHist]
    /\ InitScraper

\* ------------------------------------------------------------ environment
\* an outcome other than the nominal one (a store error, a browser that does
\* not launch, a login that needs the manual flow, a query that fails or
\* runs into the ceiling, a quit() that raises) is a fault; a behaviour has
\* at most MaxFaults of them
Fault(isFault) ==
    IF isFault THEN faults < MaxFaults /\ faults' = faults + 1
    ELSE UNCHANGED faults

\* ------------------------------------------------------ ScraperWorker.run
Sleeping == {"sleep_idle", "sleep_item", "sleep_iter"}
InProcessPrompt == {"pp_brands", "pp_create", "pp_scraper", "init_proxy",
                    "init_launch", "init_cookies", "init_login", "query",
                    "submit",
                    "qfb_finally",
                    "pp_update", "pp_except", "pp_finally"}

\* await asyncio.sleep(d): the coroutine gives up the event loop
AsyncSleep(w, label, d) ==
    /\ pc' = [pc EXCEPT ![w] = label]
    /\ wake' = [wake EXCEPT ![w] = now + d]
    /\ loop' = NoWorker

\* run() up to the while loop: the running flag is set
RunBegin(w) ==
    /\ pc[w] = "created"
    /\ loop = NoWorker
    /\ loop' = w
    /\ UNCHANGED faults
    /\ is_running' = [is_running EXCEPT ![w] = TRUE]
    /\ iteration' = [iteration EXCEPT ![w] = 0]
    /\ pc' = [pc EXCEPT ![w] = "while"]
    /\ UNCHANGED <<now, ai_source, wake, max_iterations, prompts_completed, errors,
                   last_scrape_at, pending_prompts, idx, itemVars,
                   worldVars, hist>>
    /\ UNCHANGED scraperVars

\* while self.is_running: iteration += 1
WhileCheck(w) ==
    /\ pc[w] = "while"
    /\ loop = w
    /\ UNCHANGED faults
    /\ IF is_running[w]
       THEN /\ iteration[w] < MaxIteration
            /\ iteration' = [iteration EXCEPT ![w] = @ + 1]
            /\ pc' = [pc EXCEPT ![w] = "fetch"]
       ELSE /\ pc' = [pc EXCEPT ![w] = "finally"]
            /\ UNCHANGED iteration
    /\ UNCHANGED <<now, loop, ai_source, wake, is_running, max_iterations,
                   prompts_completed, errors, last_scrape_at,
                   pending_prompts, idx, itemVars, worldVars, hist>>
    /\ UNCHANGED scraperVars

\* variant of Fetch that sleeps only the iteration interval on an empty batch
FetchShortIdle(w, storeOk) ==
    /\ pc[w] = "fetch"
    /\ loop = w
    /\ Fault(~storeOk)
    /\ LET pending == get_pending_prompts(PromptsTable, responses,
                                         ai_source[w], now, storeOk)
       IN /\ pending_prompts' = [pending_prompts EXCEPT ![w] = pending]
          /\ IF pending = <<>>
             THEN /\ AsyncSleep(w, "sleep_idle", ITERATION_SLEEP)
                  /\ UNCHANGED idx
             ELSE /\ pc' = [pc EXCEPT ![w] = "for"]
                  /\ idx' = [idx EXCEPT ![w] = 1]
                  /\ UNCHANGED <<wake, loop>>
    /\ hist' = [hist EXCEPT ![w].fetches = @ + 1,
                            ![w].attempted = <<>>,
                            ![w].results = <<>>]
    /\ UNCHANGED <<now, ai_source, is_running, iteration, max_iterations,
                   prompts_completed, errors, last_scrape_at, itemVars,
                   worldVars>>
    /\ UNCHANGED scraperVars

\* pending_prompts = await db.get_pending_prompts(..); an empty batch
\* sleeps 5 minutes and continues with the next iteration
Fetch(w, storeOk) ==
    /\ pc[w] = "fetch"
    /\ loop = w
    /\ Fault(~storeOk)
    /\ LET pending == get_pending_prompts(PromptsTable, responses,
                                         ai_source[w], now, storeOk)
       IN /\ pending_prompts' = [pending_prompts EXCEPT ![w] = pending]
          /\ IF pending = <<>>
             THEN /\ AsyncSleep(w, "sleep_idle", IDLE_SLEEP)
                  /\ UNCHANGED idx
             ELSE /\ pc' = [pc EXCEPT ![w] = "for"]
                  /\ idx' = [idx EXCEPT ![w] = 1]
                  /\ UNCHANGED <<wake, loop>>
    /\ hist' = [hist EXCEPT ![w].fetches = @ + 1,
                            ![w].attempted = <<>>,
                            ![w].results = <<>>]
    /\ UNCHANGED <<now, ai_source, is_running, iteration, max_iterations,
                   prompts_completed, errors, last_scrape_at, itemVars,
                   worldVars>>
    /\ UNCHANGED scraperVars

\* variant of ForLoop without the `if not self.is_running: break` check
ForLoopNoStopCheck(w) ==
    /\ pc[w] = "for"
    /\ loop = w
    /\ UNCHANGED faults
    /\ IF idx[w] > Len(pending_prompts[w])
       THEN /\ pc' = [pc EXCEPT ![w] = "check_max"]
            /\ UNCHANGED <<hist, itemVars>>
       ELSE /\ pc' = [pc EXCEPT ![w] = "pp_brands"]
            /\ hist' = [hist EXCEPT
                   ![w].attempted = Append(@, pending_prompts[w][idx[w]]),
                   ![w].items = @ + 1]
            /\ scraper' = [scraper EXCEPT ![w] = FALSE]
            /\ response_record' = [response_record EXCEPT ![w] = NoRecord]
            /\ brands' = [brands EXCEPT ![w] = <<>>]
            /\ exc' = [exc EXCEPT ![w] = ""]
            /\ UNCHANGED <<retval, driver, last_request_time>>
    /\ UNCHANGED <<now, loop, ai_source, wake, is_running, iteration,
                   max_iterations, prompts_completed, errors, last_scrape_at,
                   pending_prompts, idx, worldVars>>
    /\ UNCHANGED scraperVars

\* for prompt in pending_prompts: if not self.is_running: break;
\* otherwise process_prompt(prompt) is entered
ForLoop(w) ==
    /\ pc[w] = "for"
    /\ loop = w
    /\ UNCHANGED faults
    /\ IF idx[w] > Len(pending_prompts[w]) \/ ~is_running[w]
       THEN /\ pc' = [pc EXCEPT ![w] = "check_max"]
            /\ UNCHANGED <<hist, itemVars>>
       ELSE /\ pc' = [pc EXCEPT ![w] = "pp_brands"]
            /\ hist' = [hist EXCEPT
                   ![w].attempted = Append(@, pending_prompts[w][idx[w]]),
                   ![w].items = @ + 1]
            /\ scraper' = [scraper EXCEPT ![w] = FALSE]
            /\ response_record' = [response_record EXCEPT ![w] = NoRecord]
            /\ brands' = [brands EXCEPT ![w] = <<>>]
            /\ exc' = [exc EXCEPT ![w] = ""]
            /\ UNCHANGED <<retval, driver, last_request_time>>
    /\ UNCHANGED <<now, loop, ai_source, wake, is_running, iteration,
                   max_iterations, prompts_completed, errors, last_scrape_at,
                   pending_prompts, idx, worldVars>>
    /\ UNCHANGED scraperVars

\* variant of AfterItem that leaves the for loop when the item failed
AfterItemBreak(w) ==
    /\ pc[w] = "pp_return"
    /\ loop = w
    /\ UNCHANGED faults
    /\ IF retval[w]
       THEN AsyncSleep(w, "sleep_item", ITEM_SLEEP)
       ELSE /\ pc' = [pc EXCEPT ![w] = "check_max"]
            /\ UNCHANGED <<wake, loop>>
    /\ hist' = [hist EXCEPT ![w].results = Append(@, retval[w]),
                            ![w].failed = IF retval[w] THEN @ ELSE @ + 1,
                            ![w].quit = "none"]
    /\ UNCHANGED <<now, ai_source, is_running, iteration, max_iterations,
                   prompts_completed, errors, last_scrape_at, pending_prompts,
                   idx, itemVars, worldVars>>
    /\ UNCHANGED scraperVars

\* process_prompt has returned: the result is logged and the loop sleeps
\* 30 seconds before the next prompt
AfterItem(w) ==
    /\ pc[w] = "pp_return"
    /\ loop = w
    /\ UNCHANGED faults
    /\ AsyncSleep(w, "sleep_item", ITEM_SLEEP)
    /\ hist' = [hist EXCEPT ![w].results = Append(@, retval[w]),
                            ![w].failed = IF retval[w] THEN @ ELSE @ + 1,
                            ![w].quit = "none"]
    /\ UNCHANGED <<now, ai_source, is_running, iteration, max_iterations,
                   prompts_completed, errors, last_scrape_at, pending_prompts,
                   idx, itemVars, worldVars>>
    /\ UNCHANGED scraperVars

\* if max_iterations and iteration >= max_iterations: break;
\* otherwise sleep 1 minute before the next iteration
CheckMax(w) ==
    /\ pc[w] = "check_max"
    /\ loop = w
    /\ UNCHANGED faults
    /\ IF max_iterations[w] # Unlimited /\ iteration[w] >= max_iterations[w]
       THEN /\ pc' = [pc EXCEPT ![w] = "finally"]
            /\ UNCHANGED <<wake, loop>>
       ELSE AsyncSleep(w, "sleep_iter", ITERATION_SLEEP)
    /\ UNCHANGED <<now, ai_source, is_running, iteration, max_iterations,
                   prompts_completed, errors, last_scrape_at, pending_prompts,
                   idx, itemVars, worldVars, hist>>
    /\ UNCHANGED scraperVars

\* variant of Wake in which the for loop passes over the next prompt
WakeSkipItem(w) ==
    /\ pc[w] \in Sleeping
    /\ loop = NoWorker
    /\ now >= wake[w]
    /\ loop' = w
    /\ UNCHANGED faults
    /\ pc' = [pc EXCEPT ![w] = IF pc[w] = "sleep_item" THEN "for" ELSE "while"]
    /\ idx' = [idx EXCEPT ![w] = IF pc[w] = "sleep_item" THEN @ + 2 ELSE @]
    /\ UNCHANGED <<now, ai_source, wake, is_running, iteration,
                   max_iterations, prompts_completed, errors, last_scrape_at,
                   pending_prompts, itemVars, worldVars, hist>>
    /\ UNCHANGED scraperVars

\* the event loop resumes a coroutine whose asyncio.sleep has expired
Wake(w) ==
    /\ pc[w] \in Sleeping
    /\ loop = NoWorker
    /\ now >= wake[w]
    /\ loop' = w
    /\ UNCHANGED faults
    /\ pc' = [pc EXCEPT ![w] = IF pc[w] = "sleep_item" THEN "for" ELSE "while"]
    /\ idx' = [idx EXCEPT ![w] = IF pc[w] = "sleep_item" THEN @ + 1 ELSE @]
    /\ UNCHANGED <<now, ai_source, wake, is_running, iteration,
                   max_iterations, prompts_completed, errors, last_scrape_at,
                   pending_prompts, itemVars, worldVars, hist>>
    /\ UNCHANGED scraperVars

\* variant of Finally that emits the summary but leaves the running flag set
FinallyKeepRunning(w) ==
    /\ pc[w] = "finally"
    /\ loop = w
    /\ UNCHANGED faults
    /\ pc' = [pc EXCEPT ![w] = "done"]
    /\ loop' = NoWorker
    /\ hist' = [hist EXCEPT ![w].summaries = @ + 1]
    /\ UNCHANGED <<now, ai_source, wake, is_running, iteration, max_iterations,
                   prompts_completed, errors, last_scrape_at, pending_prompts,
                   idx, itemVars, worldVars>>
    /\ UNCHANGED scraperVars

\* finally: self.is_running = False; await self.cleanup() (the summary)
Finally(w) ==
    /\ pc[w] = "finally"
    /\ loop = w
    /\ UNCHANGED faults
    /\ is_running' = [is_running EXCEPT ![w] = FALSE]
    /\ pc' = [pc EXCEPT ![w] = "done"]
    /\ loop' = NoWorker
    /\ hist' = [hist EXCEPT ![w].summaries = @ + 1]
    /\ UNCHANGED <<now, ai_source, wake, iteration, max_iterations,
                   prompts_completed, errors, last_scrape_at, pending_prompts,
                   idx, itemVars, worldVars>>
    /\ UNCHANGED scraperVars

\* ScraperWorker.stop: the flag is cleared.  stop() is a coroutine of the
\* same event loop, so it runs while run() is suspended in a sleep, or
\* before run() has started
Stop(w) ==
    /\ loop = NoWorker
    /\ \/ is_running[w]
       \/ pc[w] = "created" /\ ~hist[w].stopped
    /\ UNCHANGED faults
    /\ is_running' = [is_running EXCEPT ![w] = FALSE]
    /\ hist' = [hist EXCEPT ![w].stopped = TRUE,
                            ![w].stoppedAt = IF @ = "" /\ pc[w] # "created"
                                             THEN pc[w] ELSE @]
    /\ UNCHANGED <<now, loop, ai_source, pc, wake, iteration, max_iterations,
                   prompts_completed, errors, last_scrape_at, pending_prompts,
                   idx, itemVars, worldVars>>
    /\ UNCHANGED scraperVars

\* time passes while every coroutine is suspended: up to the next timer
Tick ==
    /\ loop = NoWorker
    /\ LET sleepers == {w \in Workers : pc[w] \in Sleeping}
       IN /\ sleepers # {}
          /\ \A w \in sleepers : wake[w] > now
          /\ \E w \in sleepers :
                /\ \A v \in sleepers : wake[w] <= wake[v]
                /\ wake[w] <= MaxTime
                /\ now' = wake[w]
    /\ UNCHANGED <<faults, loop, workerVars, itemVars, worldVars, hist>>
    /\ UNCHANGED scraperVars

\* the last sleep of a worker whose flag has been cleared runs out, also
\* beyond the horizon MaxTime up to which work is begun
TickStopped ==
    /\ loop = NoWorker
    /\ LET sleepers == {w \in Workers : pc[w] \in Sleeping}
       IN /\ sleepers # {}
          /\ \A w \in sleepers : wake[w] > now
          /\ \E w \in sleepers :
                /\ \A v \in sleepers : wake[w] <= wake[v]
                /\ wake[w] > MaxTime
                /\ ~is_running[w]
                /\ now' = wake[w]
    /\ UNCHANGED <<faults, loop, workerVars, itemVars, worldVars, hist>>
    /\ UNCHANGED scraperVars

\* the task of run() is cancelled (asyncio.run on an interrupt): the
\* CancelledError is raised at the asyncio.sleep the coroutine is suspended
\* in, passes both except clauses and reaches the finally clause
Cancel(w) ==
    /\ pc[w] \in Sleeping
    /\ loop = NoWorker
    /\ loop' = w
    /\ pc' = [pc EXCEPT ![w] = "finally"]
    /\ hist' = [hist EXCEPT ![w].cancelled = TRUE]
    /\ UNCHANGED <<now, faults, ai_source, wake, is_running, iteration,
                   max_iterations, prompts_completed, errors, last_scrape_at,
                   pending_prompts, idx, itemVars, worldVars>>
    /\ UNCHANGED scraperVars

\* ------------------------------------------- ScraperWorker.process_prompt
CurrentPrompt(w) == pending_prompts[w][idx[w]]
runVars == <<ai_source, wake, is_running, iteration, max_iterations,
             pending_prompts, idx>>

\* `return False` / `return True` inside the try: the finally clause is next
Return(w, value) ==
    /\ retval' = [retval EXCEPT ![w] = value]
    /\ pc' = [pc EXCEPT ![w] = "pp_finally"]

\* brands = await db.get_brand_names(..); if not brands: return False
GetBrands(w, storeOk) ==
    /\ pc[w] = "pp_brands"
    /\ loop = w
    /\ Fault(~storeOk)
    /\ LET bs == get_brand_names(CategoryOf(CurrentPrompt(w)), storeOk)
       IN /\ brands' = [brands EXCEPT ![w] = bs]
          /\ IF bs = <<>>
             THEN Return(w, FALSE)
             ELSE /\ pc' = [pc EXCEPT ![w] = "pp_create"]
                  /\ UNCHANGED retval
    /\ UNCHANGED <<now, loop, runVars, prompts_completed, errors,
                   last_scrape_at, response_record, scraper, exc, driver,
                   last_request_time, worldVars, hist>>
    /\ UNCHANGED scraperVars

\* response_record = await db.create_response(..);
\* if not response_record: return False
CreateResponse(w, storeOk) ==
    /\ pc[w] = "pp_create"
    /\ loop = w
    /\ Fault(~storeOk)
    /\ IF storeOk
       THEN /\ responses' = Append(responses,
                   NewResponse(CurrentPrompt(w), ai_source[w], now, w,
                               hist[w].items))
            /\ response_record' = [response_record EXCEPT
                                      ![w] = Len(responses) + 1]
            /\ pc' = [pc EXCEPT ![w] = "pp_scraper"]
            /\ UNCHANGED retval
       ELSE /\ Return(w, FALSE)
            /\ UNCHANGED <<responses, response_record>>
    /\ UNCHANGED <<now, loop, runVars, prompts_completed, errors,
                   last_scrape_at, brands, scraper, exc, driver,
                   last_request_time, browsers, sessions, hist>>
    /\ UNCHANGED scraperVars

\* the fresh scraper instance (BaseScraper.__init__: driver = None,
\* last_request_time = 0; os.makedirs may raise); an unsupported
\* ai_source returns False
CreateScraper(w, ctorOk) ==
    /\ pc[w] = "pp_scraper"
    /\ loop = w
    /\ Fault(~ctorOk)
    /\ IF ai_source[w] \in SupportedSources
       THEN IF ctorOk
            THEN /\ scraper' = [scraper EXCEPT ![w] = TRUE]
                 /\ driver' = [driver EXCEPT ![w] = NoDriver]
                 /\ last_request_time' = [last_request_time EXCEPT ![w] = 0]
                 /\ stop_screenshots' = [stop_screenshots EXCEPT ![w] = FALSE]
                 /\ screenshot_thread' =
                        [screenshot_thread EXCEPT ![w] = NoThread]
                 /\ pc' = [pc EXCEPT ![w] = "init_proxy"]
                 /\ UNCHANGED <<exc, retval>>
            ELSE /\ exc' = [exc EXCEPT ![w] = "makedirs failed"]
                 /\ pc' = [pc EXCEPT ![w] = "pp_except"]
                 /\ UNCHANGED <<scraper, driver, last_request_time, retval,
                                captureVars>>
       ELSE /\ Return(w, FALSE)
            /\ UNCHANGED <<scraper, driver, last_request_time, exc,
                           captureVars>>
    /\ UNCHANGED <<now, loop, runVars, prompts_completed, errors,
                   last_scrape_at, brands, response_record, worldVars, hist>>
    /\ UNCHANGED <<load_cookies, driver_cookies, start_time, result,
                   brands_mentioned, settings, scrapers, requests,
                   cookies_file, scraper_sessions>>

\* initialize() returned False: query_with_fresh_browser raises
\* RuntimeError("Failed to initialize browser") and runs its finally clause
InitFailed(w) ==
    /\ exc' = [exc EXCEPT ![w] = "Failed to initialize browser"]
    /\ pc' = [pc EXCEPT ![w] = "qfb_finally"]

\* initialize(): if not self._setup_proxy(): return False.  The outcome of
\* the connectivity test is drawn only when the test request is made
SetupProxy(w, reachable, k) ==
    /\ pc[w] = "init_proxy"
    /\ loop = w
    /\ reachable \/ get_random_proxy(settings, k) # None
    /\ k = 1 \/ ProxyTested(settings)
    /\ Fault(~reachable)
    /\ IF setup_proxy(settings, reachable, k)
       THEN /\ pc' = [pc EXCEPT ![w] = "init_launch"]
            /\ hist' = [hist EXCEPT ![w].tested =
                           IF ProxyTested(settings)
                           THEN get_random_proxy(settings, k) ELSE None]
            /\ UNCHANGED exc
       ELSE /\ InitFailed(w)
            /\ hist' = [hist EXCEPT ![w].proxyFailed = @ \cup {hist[w].items}]
    /\ UNCHANGED <<now, loop, runVars, prompts_completed, errors,
                   last_scrape_at, brands, response_record, scraper, retval,
                   driver, last_request_time, worldVars>>
    /\ UNCHANGED scraperVars

\* initialize(): self.driver = uc.Chrome(..) and, in headless mode, the
\* start of the screenshot thread; a launch that raises is caught by
\* initialize, which returns False
LaunchBrowser(w, launchOk, k) ==
    /\ pc[w] = "init_launch"
    /\ loop = w
    /\ k = 1 \/ settings.USE_PROXY
    /\ Fault(~launchOk)
    /\ IF launchOk
       THEN /\ sessions' = Append(sessions,
                               NewSession(w, hist[w].items, settings,
                                          hist[w].tested, k))
            /\ driver' = [driver EXCEPT ![w] = Len(sessions) + 1]
            /\ browsers' = browsers \cup {Len(sessions) + 1}
            /\ driver_cookies' = [driver_cookies EXCEPT ![w] = <<>>]
            /\ IF settings.HEADLESS
               THEN /\ stop_screenshots' =
                          [stop_screenshots EXCEPT ![w] = FALSE]
                    /\ screenshot_thread' =
                          [screenshot_thread EXCEPT ![w] =
                              [alive |-> TRUE, due |-> 0, busy_until |-> 0]]
               ELSE UNCHANGED captureVars
            /\ pc' = [pc EXCEPT ![w] = "init_cookies"]
            /\ UNCHANGED exc
       ELSE /\ InitFailed(w)
            /\ UNCHANGED <<sessions, driver, browsers, driver_cookies,
                           captureVars>>
    /\ UNCHANGED <<now, loop, runVars, prompts_completed, errors,
                   last_scrape_at, brands, response_record, scraper, retval,
                   last_request_time, responses, hist>>
    /\ UNCHANGED <<load_cookies, start_time, result,
                   brands_mentioned, settings, scrapers, requests, cookies_file,
                   scraper_sessions>>

\* initialize(): the platform page is opened and, when load_cookies is set,
\* _load_and_apply_cookies adds the cookies of the file to the browser;
\* rejected are the positions of the cookies whose add_cookie raises
LoadAndApplyCookies(w, rejected) ==
    /\ pc[w] = "init_cookies"
    /\ loop = w
    /\ rejected \subseteq 1..Len(cookies_file[w])
    /\ load_cookies[w] \/ rejected = {}
    /\ \A k \in rejected :
          ~domain_skipped(cookies_file[w][k], current_domain(ai_source[w]))
    /\ Fault(rejected # {})
    /\ LET acc == apply_cookies(cookies_file[w], current_domain(ai_source[w]),
                                rejected, 1, [cookies |-> <<>>, added |-> {}])
       IN IF load_cookies[w]
          THEN /\ driver_cookies' = [driver_cookies EXCEPT ![w] = acc.cookies]
               /\ hist' = [hist EXCEPT ![w].added = acc.added,
                                       ![w].rejected = rejected]
          ELSE UNCHANGED <<driver_cookies, hist>>
    /\ pc' = [pc EXCEPT ![w] = "init_login"]
    /\ UNCHANGED <<now, loop, runVars, prompts_completed, errors,
                   last_scrape_at, brands, response_record, scraper, exc,
                   retval, driver, last_request_time, worldVars>>
    /\ UNCHANGED <<load_cookies, start_time, result,
                   brands_mentioned, settings, scrapers, requests, cookies_file,
                   scraper_sessions>>
    /\ UNCHANGED captureVars

\* initialize(): navigation and the login check; when the check fails and
\* cookie loading was requested, the manual login flow (a 90 s wait, after
\* which the cookies of the browser are saved to the file and the store)
\* and a second login check.
\* outcome: "logged_in" = the first check succeeds; "manual_ok" = it fails
\* and somebody logs in during the wait; "manual_failed" = it fails and
\* nobody does; "raised" = the navigation raises.
\* saveOk: db.save_session succeeds; fileOk: the write of the cookie file
\* succeeds (both drawn only when the save is made; a write that fails is
\* a second failure next to the failed login check)
LoginOutcomes == {"logged_in", "manual_ok", "manual_failed", "raised"}
LoginCheck(w, outcome, saveOk, fileOk) ==
    LET manual == manual_login(outcome, load_cookies[w])
        user   == outcome \in {"logged_in", "manual_ok"}
        saved  == get_cookies(ai_source[w], user)
    IN
    /\ pc[w] = "init_login"
    /\ loop = w
    /\ (saveOk /\ fileOk) \/ (manual /\ (saveOk \/ fileOk))
    /\ IF fileOk
       THEN Fault(outcome # "logged_in" \/ ~saveOk)
       ELSE faults + 2 <= MaxFaults /\ faults' = faults + 2
    /\ IF manual
       THEN /\ now + LOGIN_WAIT <= MaxTime
            /\ now' = now + LOGIN_WAIT
            /\ cookies_file' = [cookies_file EXCEPT
                                   ![w] = save_cookies(@, saved, fileOk)]
            /\ scraper_sessions' = [scraper_sessions EXCEPT
                                       ![w] = save_session(@, saved, saveOk)]
       ELSE UNCHANGED <<now, cookies_file, scraper_sessions>>
    /\ IF initialize_result(outcome, load_cookies[w])
       THEN /\ pc' = [pc EXCEPT ![w] = "query"]
            /\ UNCHANGED exc
       ELSE InitFailed(w)
    /\ sessions' = [sessions EXCEPT ![driver[w]] =
          [@ EXCEPT !.first_check = IF outcome = "raised" THEN @
                                    ELSE IF outcome = "logged_in" THEN "ok"
                                    ELSE "failed",
                    !.manual = IF manual THEN @ + 1 ELSE @,
                    !.writes = IF manual THEN @ + 1 ELSE @,
                    !.logged_in = user /\ (outcome = "logged_in" \/ manual)]]
    /\ UNCHANGED <<loop, runVars, prompts_completed, errors, last_scrape_at,
                   brands, response_record, scraper, retval, driver,
                   last_request_time, responses, browsers, hist>>
    /\ UNCHANGED <<load_cookies, driver_cookies, start_time, result,
                   brands_mentioned, settings, scrapers, requests>>
    /\ UNCHANGED captureVars

\* BaseScraper.enforce_rate_limit on the scraper of w: the first call
\* records the time and returns; a later call sleeps for the remainder of
\* RATE_LIMIT_DELAY (time.sleep may oversleep) and then records the time
Overshoots == {0, 30}
EnforceRateLimit(w, over) ==
    LET wait  == RateLimitWait(last_request_time[w], now)
        slept == IF wait > 0 THEN wait + over ELSE 0
    IN /\ now + slept <= MaxTime
       /\ now' = now + slept
       /\ last_request_time' = [last_request_time EXCEPT ![w] = now + slept]
       /\ hist' = [hist EXCEPT
              ![w].prevStart = hist[w].lastStart,
              ![w].lastStart = now + slept,
              ![w].calls = @ + 1,
              ![w].elapsed = now - last_request_time[w],
              ![w].waited = slept]

\* query(): self.enforce_rate_limit()
QueryRateLimit(w, over) ==
    /\ pc[w] = "query"
    /\ loop = w
    /\ UNCHANGED faults
    /\ EnforceRateLimit(w, over)
    /\ pc' = [pc EXCEPT ![w] = "submit"]
    /\ UNCHANGED <<loop, runVars, prompts_completed, errors, last_scrape_at,
                   brands, response_record, scraper, exc, retval, driver,
                   worldVars>>
    /\ UNCHANGED scraperVars

\* query(): the prompt is entered and sent, the response awaited for d
\* seconds and its text extracted from the page; a failure raises out of
\* query
QueryDurations == {0, MAX_WAIT}
NothingOnPage == NoPage
AnswerOnPage == [primary |-> Answer, elements |-> <<Answer>>, fbOk |-> TRUE]
Pages == {AnswerOnPage, NothingOnPage}

\* the texts _extract_response can return from these pages, and the brand
\* lists query() can be given: those of the categories, or none
QueryTexts ==
    {extract_response(src, page.primary, page.elements, page.fbOk) :
        src \in SupportedSources, page \in Pages}
QueryBrandLists == {<<>>} \cup {BrandsOf(CategoryOf(p)) : p \in Prompts}

\* extract_brands over those texts and lists, computed once
MentionsTable ==
    {<<text, brand_list, extract_brands(text, brand_list)>> :
        text \in QueryTexts, brand_list \in QueryBrandLists}

\* brands_mentioned = self.extract_brands(response_text, brands), looked up
\* in the table
mentions_of(text, brand_list) ==
    (CHOOSE r \in MentionsTable : r[1] = text /\ r[2] = brand_list)[3]

Submit(w, queryOk, d, page) ==
    /\ pc[w] = "submit"
    /\ loop = w
    /\ queryOk \/ page = AnswerOnPage
    /\ Fault(~queryOk \/ d # 0 \/ page # AnswerOnPage)
    /\ now + d <= MaxTime
    /\ now' = now + d
    /\ sessions' = [sessions EXCEPT ![driver[w]].submitted = @ + 1]
    /\ exc' = [exc EXCEPT ![w] = IF queryOk THEN "" ELSE "query failed"]
    /\ result' = [result EXCEPT ![w] =
          IF queryOk
          THEN extract_response(ai_source[w], page.primary, page.elements,
                                page.fbOk)
          ELSE @]
    /\ brands_mentioned' = [brands_mentioned EXCEPT ![w] =
          IF queryOk
          THEN mentions_of(extract_response(ai_source[w], page.primary,
                                            page.elements, page.fbOk),
                           brands[w])
          ELSE @]
    /\ pc' = [pc EXCEPT ![w] = "qfb_finally"]
    /\ UNCHANGED <<loop, runVars, prompts_completed, errors, last_scrape_at,
                   brands, response_record, scraper, retval, driver,
                   last_request_time, responses, browsers, hist>>
    /\ UNCHANGED <<load_cookies, driver_cookies, start_time, settings,
                   scrapers, requests,
                   cookies_file, scraper_sessions>>
    /\ UNCHANGED captureVars

\* how driver.quit() ends: normally, or by raising with the browser process
\* gone or still running
QuitOutcomes == {"ok", "raised_gone", "raised_alive"}

\* BaseScraper.cleanup: _stop_screenshot_capture() sets the flag and joins
\* the thread for at most the timeout, then driver.quit() is called if there
\* is a driver.  phase is where a living thread is when the flag is set
Cleanup(w, quit, phase) ==
    LET flagged == stop_screenshots[w]
        th == IF screenshot_thread[w].alive
              THEN thread_at(screenshot_thread[w], flagged, now, phase)
              ELSE screenshot_thread[w]
        j == join_thread(th, now)
    IN /\ (screenshot_thread[w].alive /\ ~flagged) \/ phase = NoPhase
       /\ now + j.waited <= MaxTime
       /\ now' = now + j.waited
       /\ stop_screenshots' = [stop_screenshots EXCEPT ![w] = TRUE]
       /\ screenshot_thread' = [screenshot_thread EXCEPT ![w] = j.thread]
       /\ driver' = [driver EXCEPT ![w] = CleanupDriver(@, quit = "ok")]
       /\ browsers' = CleanupBrowsers(browsers, driver[w],
                                      quit # "raised_alive")
       /\ hist' = [hist EXCEPT ![w].quitWithCapture =
                      @ \/ (driver[w] # NoDriver /\ j.thread.alive),
                                ![w].quit =
                      IF driver[w] = NoDriver THEN "none"
                      ELSE IF quit = "ok" THEN "ok" ELSE "raised"]

\* query_with_fresh_browser: finally: await self.cleanup(); the exception,
\* if any, then reaches process_prompt
FreshBrowserFinally(w, quit, phase) ==
    /\ pc[w] = "qfb_finally"
    /\ loop = w
    /\ Fault(quit # "ok")
    /\ Cleanup(w, quit, phase)
    /\ pc' = [pc EXCEPT ![w] = IF exc[w] = "" THEN "pp_update" ELSE "pp_except"]
    /\ UNCHANGED <<loop, runVars, prompts_completed, errors,
                   last_scrape_at, brands, response_record, scraper, exc,
                   retval, last_request_time, responses, sessions>>
    /\ UNCHANGED <<load_cookies, driver_cookies, start_time, result,
                   brands_mentioned, settings, scrapers, requests,
                   cookies_file, scraper_sessions>>

\* await db.update_response(.., status='completed');
\* self.prompts_completed += 1; return True
UpdateCompleted(w, storeOk) ==
    /\ pc[w] = "pp_update"
    /\ loop = w
    /\ Fault(~storeOk)
    /\ responses' = update_response(responses, response_record[w],
                                    result[w], brands_mentioned[w],
                                    "completed", "", storeOk)
    /\ prompts_completed' = [prompts_completed EXCEPT ![w] = @ + 1]
    /\ last_scrape_at' = [last_scrape_at EXCEPT ![w] = now]
    /\ Return(w, TRUE)
    /\ hist' = [hist EXCEPT ![w].updFailed =
                   IF storeOk THEN @ ELSE @ \cup {hist[w].items}]
    /\ UNCHANGED <<now, loop, runVars, errors, brands, response_record,
                   scraper, exc, driver, last_request_time, browsers,
                   sessions>>
    /\ UNCHANGED scraperVars

\* variant of ExceptHandler that counts the error but leaves the record alone
ExceptHandlerNoUpdate(w, storeOk) ==
    /\ pc[w] = "pp_except"
    /\ loop = w
    /\ Fault(~storeOk)
    /\ errors' = [errors EXCEPT ![w] = @ + 1]
    /\ exc' = [exc EXCEPT ![w] = ""]
    /\ Return(w, FALSE)
    /\ UNCHANGED <<now, loop, runVars, prompts_completed, last_scrape_at,
                   brands, response_record, scraper, driver,
                   last_request_time, worldVars, hist>>
    /\ UNCHANGED scraperVars

\* except Exception: self.errors += 1; the record, if any, is updated to
\* 'failed' with the message; return False
ExceptHandler(w, storeOk) ==
    /\ pc[w] = "pp_except"
    /\ loop = w
    /\ Fault(~storeOk)
    /\ errors' = [errors EXCEPT ![w] = @ + 1]
    /\ responses' = IF response_record[w] # NoRecord
                    THEN update_response(responses, response_record[w],
                                         <<>>, <<>>, "failed", exc[w],
                                         storeOk)
                    ELSE responses
    /\ exc' = [exc EXCEPT ![w] = ""]
    /\ Return(w, FALSE)
    /\ hist' = [hist EXCEPT ![w].updFailed =
                   IF storeOk \/ response_record[w] = NoRecord
                   THEN @ ELSE @ \cup {hist[w].items}]
    /\ UNCHANGED <<now, loop, runVars, prompts_completed, last_scrape_at,
                   brands, response_record, scraper, driver,
                   last_request_time, browsers, sessions>>
    /\ UNCHANGED scraperVars

\* finally: if scraper: await scraper.cleanup(); process_prompt returns
ProcessFinally(w, quit, phase) ==
    /\ pc[w] = "pp_finally"
    /\ loop = w
    /\ Fault(quit # "ok")
    /\ IF scraper[w]
       THEN Cleanup(w, quit, phase)
       ELSE /\ phase = NoPhase
            /\ UNCHANGED <<now, driver, browsers, captureVars, hist>>
    /\ pc' = [pc EXCEPT ![w] = "pp_return"]
    /\ UNCHANGED <<loop, runVars, prompts_completed, errors,
                   last_scrape_at, brands, response_record, scraper, exc,
                   retval, last_request_time, responses, sessions>>
    /\ UNCHANGED <<load_cookies, driver_cookies, start_time, result,
                   brands_mentioned, settings, scrapers, requests,
                   cookies_file, scraper_sessions>>

\* the capture thread comes back to `while not self._stop_screenshots and
\* self.driver` after the flag has been set, and ends
CaptureExit(w) ==
    /\ screenshot_thread[w].alive
    /\ stop_screenshots[w]
    /\ now' = IF screenshot_thread[w].due > now
              THEN screenshot_thread[w].due ELSE now
    /\ screenshot_thread' = [screenshot_thread EXCEPT ![w].alive = FALSE]
    /\ UNCHANGED <<faults, loop, workerVars, itemVars, worldVars, hist,
                   stop_screenshots>>
    /\ UNCHANGED <<load_cookies, driver_cookies, start_time, result,
                   brands_mentioned, settings, scrapers, requests,
                   cookies_file, scraper_sessions>>

\* ------------------- _send_message, _wait_for_response, _extract_response
\* what the wait for the send control and the click on it come to: the
\* control is clicked; click() raises but a click by script works; both
\* raise; the control is not clickable within the wait (TimeoutException)
SendControls == {"clickable", "script_click", "unclickable", "timeout"}

\* _send_message: how the prompt is submitted ("raised" = an exception
\* leaves _send_message).  BaseScraper (ChatGPT, Gemini) presses Enter on a
\* timeout; PerplexityScraper refuses an empty editor, clicks by script when
\* click() raises and otherwise looks for another button labelled submit
send_message(src, control, hasText, alt) ==
    IF src # "perplexity"
    THEN IF control = "clickable" THEN "button"
         ELSE IF control = "timeout" THEN "enter"
         ELSE "raised"
    ELSE IF ~hasText THEN "raised"
         ELSE IF control = "clickable" THEN "button"
         ELSE IF control = "script_click" THEN "script"
         ELSE IF alt THEN "alternative"
         ELSE "raised"

\* the time _send_message blocks
send_time(src, control, hasText) ==
    IF src # "perplexity"
    THEN IF control = "timeout" THEN SEND_BUTTON_WAIT ELSE 0
    ELSE IF ~hasText THEN SEND_DELAY
         ELSE IF control = "timeout" THEN SEND_DELAY + SEND_BUTTON_WAIT
         ELSE IF control = "unclickable" THEN SEND_DELAY
         ELSE SEND_DELAY + SEND_DELAY

\* self._send_message(input_field) of query()
SendMessage(w, control, hasText, alt) ==
    /\ pc[w] = "send"
    /\ loop = w
    /\ ai_source[w] = "perplexity" \/ (hasText /\ alt)
    /\ hasText \/ (control = "clickable" /\ alt)
    /\ control \in {"unclickable", "timeout"} \/ alt
    /\ now + send_time(ai_source[w], control, hasText) <= MaxTime
    /\ now' = now + send_time(ai_source[w], control, hasText)
    /\ LET sent == send_message(ai_source[w], control, hasText, alt)
       IN /\ hist' = [hist EXCEPT ![w].control = IF hasText THEN control ELSE "",
                                  ![w].sent = sent]
          /\ IF sent = "raised"
             THEN /\ pc' = [pc EXCEPT ![w] = "raised"]
                  /\ exc' = [exc EXCEPT ![w] = "query failed"]
             ELSE /\ pc' = [pc EXCEPT ![w] = "wait_begin"]
                  /\ UNCHANGED exc
    /\ UNCHANGED <<faults, loop, runVars, prompts_completed, errors,
                   last_scrape_at, brands, response_record, scraper, retval,
                   driver, last_request_time, worldVars>>
    /\ UNCHANGED scraperVars

\* _wait_for_response up to its loop: Gemini and Perplexity first wait for
\* the response to start; start_time = time.time()
WaitBegin(w) ==
    /\ pc[w] = "wait_begin"
    /\ loop = w
    /\ LET d == IF ai_source[w] = "chatgpt" THEN 0 ELSE INITIAL_DELAY
       IN /\ now + d <= MaxTime
          /\ now' = now + d
          /\ start_time' = [start_time EXCEPT ![w] = now + d]
    /\ pc' = [pc EXCEPT ![w] = "wait"]
    /\ UNCHANGED <<faults, loop, runVars, prompts_completed, errors,
                   last_scrape_at, itemVars, worldVars, hist>>
    /\ UNCHANGED <<load_cookies, driver_cookies, result,
                   brands_mentioned, settings, scrapers, requests,
                   cookies_file, scraper_sessions>>
    /\ UNCHANGED captureVars

\* one pass of the polling loop while the ceiling has not been reached
Poll(w, outcome, seen) ==
    /\ pc[w] = "wait"
    /\ loop = w
    /\ IF ai_source[w] = "perplexity"
       THEN outcome = perplexity_poll(seen)
       ELSE seen = NoContainer
    /\ ~wait_expired(now - start_time[w])
    /\ IF poll_raises(ai_source[w], outcome)
       THEN /\ pc' = [pc EXCEPT ![w] = "raised"]
            /\ exc' = [exc EXCEPT ![w] = "query failed"]
            /\ UNCHANGED <<now, hist>>
       ELSE IF poll_breaks(ai_source[w], outcome)
       THEN /\ pc' = [pc EXCEPT ![w] = "wait_end"]
            /\ hist' = [hist EXCEPT ![w].seen = seen, ![w].left = outcome]
            /\ UNCHANGED <<now, exc>>
       ELSE /\ now + poll_delay(ai_source[w], outcome) <= MaxTime
            /\ now' = now + poll_delay(ai_source[w], outcome)
            /\ UNCHANGED <<pc, exc, hist>>
    /\ UNCHANGED <<faults, loop, runVars, prompts_completed, errors,
                   last_scrape_at, brands, response_record, scraper, retval,
                   driver, last_request_time, worldVars>>
    /\ UNCHANGED scraperVars

\* the while condition fails: the else clause of the loop logs that the
\* response took too long
WaitCeiling(w) ==
    /\ pc[w] = "wait"
    /\ loop = w
    /\ wait_expired(now - start_time[w])
    /\ pc' = [pc EXCEPT ![w] = "wait_end"]
    /\ hist' = [hist EXCEPT ![w].ceiling = TRUE]
    /\ UNCHANGED <<now, faults, loop, runVars, prompts_completed, errors,
                   last_scrape_at, itemVars, worldVars>>
    /\ UNCHANGED scraperVars

\* self.random_delay(1, 2) after the loop; _wait_for_response returns
RandomDelays == {1, 2}
WaitEnd(w, d) ==
    /\ pc[w] = "wait_end"
    /\ loop = w
    /\ now + d <= MaxTime
    /\ now' = now + d
    /\ pc' = [pc EXCEPT ![w] = "extract"]
    /\ UNCHANGED <<faults, loop, runVars, prompts_completed, errors,
                   last_scrape_at, itemVars, worldVars, hist>>
    /\ UNCHANGED scraperVars

\* response_text = self._extract_response(), which may raise;
\* brands_mentioned = self.extract_brands(response_text, brands)
Extract(w, scriptOk, primary, elements, fbOk) ==
    /\ pc[w] = "extract"
    /\ loop = w
    /\ IF scriptOk
       THEN /\ result' = [result EXCEPT ![w] =
                   extract_response(ai_source[w], primary, elements, fbOk)]
            /\ brands_mentioned' = [brands_mentioned EXCEPT ![w] =
                   extract_brands(
                       extract_response(ai_source[w], primary, elements, fbOk),
                       brands[w])]
            /\ pc' = [pc EXCEPT ![w] = "extracted"]
            /\ hist' = [hist EXCEPT ![w].page =
                   [primary |-> primary, elements |-> elements, fbOk |-> fbOk]]
            /\ UNCHANGED exc
       ELSE /\ pc' = [pc EXCEPT ![w] = "raised"]
            /\ exc' = [exc EXCEPT ![w] = "query failed"]
            /\ UNCHANGED <<result, brands_mentioned, hist>>
    /\ UNCHANGED <<now, faults, loop, runVars, prompts_completed, errors,
                   last_scrape_at, brands, response_record, scraper, retval,
                   driver, last_request_time, worldVars>>
    /\ UNCHANGED <<load_cookies, driver_cookies, start_time, settings,
                   scrapers, requests,
                   cookies_file, scraper_sessions>>
    /\ UNCHANGED captureVars

\* ---------------------------------------------------------- specification
RunStep ==
    \/ \E w \in Workers : RunBegin(w)
    \/ \E w \in Workers : WhileCheck(w)
    \/ \E w \in Workers, storeOk \in BOOLEAN : Fetch(w, storeOk)
    \/ \E w \in Workers : ForLoop(w)
    \/ \E w \in Workers, storeOk \in BOOLEAN : GetBrands(w, storeOk)
    \/ \E w \in Workers, storeOk \in BOOLEAN : CreateResponse(w, storeOk)
    \/ \E w \in Workers, ctorOk \in BOOLEAN : CreateScraper(w, ctorOk)
    \/ \E w \in Workers, reachable \in BOOLEAN,
          k \in Draws(settings.OXYLABS_PROXY_PORTS) : SetupProxy(w, reachable, k)
    \/ \E w \in Workers, launchOk \in BOOLEAN,
          k \in Draws(settings.OXYLABS_PROXY_PORTS) : LaunchBrowser(w, launchOk, k)
    \/ \E w \in Workers, rejected \in SUBSET (1..MaxCookies) :
          LoadAndApplyCookies(w, rejected)
    \/ \E w \in Workers, o \in LoginOutcomes, saveOk \in BOOLEAN,
          fileOk \in BOOLEAN : LoginCheck(w, o, saveOk, fileOk)
    \/ \E w \in Workers, over \in Overshoots : QueryRateLimit(w, over)
    \/ \E w \in Workers, queryOk \in BOOLEAN, d \in QueryDurations,
          page \in Pages : Submit(w, queryOk, d, page)
    \/ \E w \in Workers, q \in QuitOutcomes, phase \in CapturePhases :
          FreshBrowserFinally(w, q, phase)
    \/ \E w \in Workers, storeOk \in BOOLEAN : UpdateCompleted(w, storeOk)
    \/ \E w \in Workers, storeOk \in BOOLEAN : ExceptHandler(w, storeOk)
    \/ \E w \in Workers, q \in QuitOutcomes, phase \in CapturePhases :
          ProcessFinally(w, q, phase)
    \/ \E w \in Workers : AfterItem(w)
    \/ \E w \in Workers : CheckMax(w)
    \/ \E w \in Workers : Wake(w)
    \/ \E w \in Workers : Finally(w)
    \/ Tick

\* one ScraperWorker, of any platform name, driven through run() and stop()
Next ==
    \/ RunStep
    \/ \E w \in Workers : Stop(w)

Spec == Init /\ [][Next]_vars

\* worker.py main(): one worker per platform, all with the same arguments
\* (here --max-iterations 2), gathered on one event loop; main never calls
\* stop()
InitGather ==
    /\ now = StartTime
    /\ loop = NoWorker
    /\ ai_source = [w \in Workers |-> IF w = 1 THEN "chatgpt" ELSE "gemini"]
    /\ pc = [w \in Workers |-> "created"]
    /\ wake = [w \in Workers |-> 0]
    /\ is_running = [w \in Workers |-> FALSE]
    /\ iteration = [w \in Workers |-> 0]
    /\ max_iterations = [w \in Workers |-> 2]
    /\ prompts_completed = [w \in Workers |-> 0]
    /\ errors = [w \in Workers |-> 0]
    /\ last_scrape_at = [w \in Workers |-> 0]
    /\ pending_prompts = [w \in Workers |-> <<>>]
    /\ idx = [w \in Workers |-> 0]
    /\ brands = [w \in Workers |-> <<>>]
    /\ response_record = [w \in Workers |-> NoRecord]
    /\ scraper = [w \in Workers |-> FALSE]
    /\ exc = [w \in Workers |-> ""]
    /\ retval = [w \in Workers |-> FALSE]
    /\ driver = [w \in Workers |-> NoDriver]
    /\ last_request_time = [w \in Workers |-> 0]
    /\ responses = <<>>
    /\ browsers = {}
    /\ sessions = <<>>
    /\ faults = 0
    /\ hist = [w \in Workers |-> NewHist]
    /\ InitScraper

NextGather == RunStep

SpecGather == InitGather /\ [][NextGather]_vars

\* one scraper instance kept across requests (the cached scraper of the
\* request-driven path): enforce_rate_limit is called on it again and again,
\* with time passing between the calls
Gaps == {30, 90, 180, 240}
InitLimiter ==
    /\ now = StartTime
    /\ loop = NoWorker
    /\ ai_source = [w \in Workers |-> "chatgpt"]
    /\ pc = [w \in Workers |-> IF w = 1 THEN "scraper" ELSE "absent"]
    /\ wake = [w \in Workers |-> 0]
    /\ is_running = [w \in Workers |-> FALSE]
    /\ iteration = [w \in Workers |-> 0]
    /\ max_iterations = [w \in Workers |-> Unlimited]
    /\ prompts_completed = [w \in Workers |-> 0]
    /\ errors = [w \in Workers |-> 0]
    /\ last_scrape_at = [w \in Workers |-> 0]
    /\ pending_prompts = [w \in Workers |-> <<>>]
    /\ idx = [w \in Workers |-> 0]
    /\ brands = [w \in Workers |-> <<>>]
    /\ response_record = [w \in Workers |-> NoRecord]
    /\ scraper = [w \in Workers |-> w = 1]
    /\ exc = [w \in Workers |-> ""]
    /\ retval = [w \in Workers |-> FALSE]
    /\ driver = [w \in Workers |-> NoDriver]
    /\ last_request_time = [w \in Workers |-> 0]
    /\ responses = <<>>
    /\ browsers = {}
    /\ sessions = <<>>
    /\ faults = 0
    /\ hist = [w \in Workers |-> NewHist]
    /\ InitScraper

\* time passes between two requests
Elapse(d) ==
    /\ \E w \in Workers : pc[w] = "scraper"
    /\ now + d <= MaxTime
    /\ now' = now + d
    /\ UNCHANGED <<faults, loop, workerVars, itemVars, worldVars, hist>>
    /\ UNCHANGED scraperVars

\* a request calls enforce_rate_limit on the kept scraper
LimiterCall(w, over) ==
    /\ pc[w] = "scraper"
    /\ EnforceRateLimit(w, over)
    /\ UNCHANGED <<faults, loop, workerVars, brands, response_record, scraper,
                   exc, retval, driver, worldVars>>
    /\ UNCHANGED scraperVars

NextLimiter ==
    \/ \E d \in Gaps : Elapse(d)
    \/ \E w \in Workers, over \in Overshoots : LimiterCall(w, over)

SpecLimiter == InitLimiter /\ [][NextLimiter]_vars

\* one scraper driven through initialize(load_cookies) and, when that
\* succeeds, query() and cleanup() as query_with_fresh_browser does, for
\* every configuration of the proxy and either value of load_cookies
InitSession ==
    /\ now = StartTime
    /\ loop = 1
    /\ ai_source = [w \in Workers |-> "chatgpt"]
    /\ pc = [w \in Workers |-> IF w = 1 THEN "init_proxy" ELSE "absent"]
    /\ wake = [w \in Workers |-> 0]
    /\ is_running = [w \in Workers |-> FALSE]
    /\ iteration = [w \in Workers |-> 0]
    /\ max_iterations = [w \in Workers |-> Unlimited]
    /\ prompts_completed = [w \in Workers |-> 0]
    /\ errors = [w \in Workers |-> 0]
    /\ last_scrape_at = [w \in Workers |-> 0]
    /\ pending_prompts = [w \in Workers |-> <<>>]
    /\ idx = [w \in Workers |-> 0]
    /\ brands = [w \in Workers |-> <<>>]
    /\ response_record = [w \in Workers |-> NoRecord]
    /\ scraper = [w \in Workers |-> w = 1]
    /\ exc = [w \in Workers |-> ""]
    /\ retval = [w \in Workers |-> FALSE]
    /\ driver = [w \in Workers |-> NoDriver]
    /\ last_request_time = [w \in Workers |-> 0]
    /\ responses = <<>>
    /\ browsers = {}
    /\ sessions = <<>>
    /\ faults = 0
    /\ hist = [w \in Workers |-> NewHist]
    /\ \E b \in BOOLEAN : load_cookies = [w \in Workers |-> b]
    /\ driver_cookies = [w \in Workers |-> <<>>]
    /\ start_time = [w \in Workers |-> 0]
    /\ result = [w \in Workers |-> <<>>]
    /\ brands_mentioned = [w \in Workers |-> <<>>]
    /\ settings \in SettingsChoices
    /\ cookies_file = [w \in Workers |-> <<>>]
    /\ scraper_sessions = [w \in Workers |-> NoRow]
    /\ InitCapture
    /\ InitRegistry

NextSession ==
    \/ \E w \in Workers, reachable \in BOOLEAN,
          k \in Draws(settings.OXYLABS_PROXY_PORTS) : SetupProxy(w, reachable, k)
    \/ \E w \in Workers, launchOk \in BOOLEAN,
          k \in Draws(settings.OXYLABS_PROXY_PORTS) : LaunchBrowser(w, launchOk, k)
    \/ \E w \in Workers, rejected \in SUBSET (1..MaxCookies) :
          LoadAndApplyCookies(w, rejected)
    \/ \E w \in Workers, o \in LoginOutcomes, saveOk \in BOOLEAN,
          fileOk \in BOOLEAN : LoginCheck(w, o, saveOk, fileOk)
    \/ \E w \in Workers, over \in Overshoots : QueryRateLimit(w, over)
    \/ \E w \in Workers, queryOk \in BOOLEAN, d \in QueryDurations,
          page \in Pages : Submit(w, queryOk, d, page)
    \/ \E w \in Workers, q \in QuitOutcomes, phase \in CapturePhases :
          FreshBrowserFinally(w, q, phase)
    \/ \E w \in Workers : CaptureExit(w)

SpecSession == InitSession /\ [][NextSession]_vars

\* query() of each platform adapter from the moment the prompt has been
\* entered: _send_message, _wait_for_response and _extract_response on a
\* page whose state is drawn anew at every poll
InitResponse ==
    /\ now = StartTime
    /\ loop = 1
    /\ \E src \in SupportedSources : ai_source = [w \in Workers |-> src]
    /\ pc = [w \in Workers |-> IF w = 1 THEN "send" ELSE "absent"]
    /\ wake = [w \in Workers |-> 0]
    /\ is_running = [w \in Workers |-> FALSE]
    /\ iteration = [w \in Workers |-> 0]
    /\ max_iterations = [w \in Workers |-> Unlimited]
    /\ prompts_completed = [w \in Workers |-> 0]
    /\ errors = [w \in Workers |-> 0]
    /\ last_scrape_at = [w \in Workers |-> 0]
    /\ pending_prompts = [w \in Workers |-> <<>>]
    /\ idx = [w \in Workers |-> 0]
    /\ brands = [w \in Workers |-> <<>>]
    /\ response_record = [w \in Workers |-> NoRecord]
    /\ scraper = [w \in Workers |-> w = 1]
    /\ exc = [w \in Workers |-> ""]
    /\ retval = [w \in Workers |-> FALSE]
    /\ driver = [w \in Workers |-> IF w = 1 THEN 1 ELSE NoDriver]
    /\ last_request_time = [w \in Workers |-> IF w = 1 THEN StartTime ELSE 0]
    /\ responses = <<>>
    /\ browsers = {1}
    /\ sessions = <<[NewSession(1, 0, DeployedSettings, "8001", 1) EXCEPT
                       !.first_check = "ok", !.logged_in = TRUE,
                       !.submitted = 1]>>
    /\ faults = 0
    /\ hist = [w \in Workers |-> NewHist]
    /\ InitScraper

NextResponse ==
    \/ \E w \in Workers, control \in SendControls, hasText, alt \in BOOLEAN :
          SendMessage(w, control, hasText, alt)
    \/ \E w \in Workers : WaitBegin(w)
    \/ \E w \in Workers, o \in PollOutcomes, seen \in PerplexityPages :
          Poll(w, o, seen)
    \/ \E w \in Workers : WaitCeiling(w)
    \/ \E w \in Workers, d \in RandomDelays : WaitEnd(w, d)
    \/ \E w \in Workers, scriptOk, fbOk \in BOOLEAN, primary \in Texts,
          elements \in ElementTexts :
          Extract(w, scriptOk, primary, elements, fbOk)

\* the loop and the extraction run on without outside help
SpecResponse ==
    InitResponse /\ [][NextResponse]_vars /\ WF_vars(NextResponse)

\* one ScraperWorker driven through run(), stop() and cancellation, with
\* the event loop running every coroutine that is ready and timers expiring
NextLive ==
    \/ Next
    \/ TickStopped
    \/ \E w \in Workers : Cancel(w)

SpecLive == Init /\ [][NextLive]_vars /\ WF_vars(RunStep \/ TickStopped)

\* ------------------------------------------------------------- properties
\* process_prompt has returned for item n of worker w
Returned(w, n) == n < hist[w].items \/ pc[w] \notin InProcessPrompt
RecordsOf(w, n) ==
    {i \in 1..Len(responses) :
        responses[i].worker = w /\ responses[i].item = n}
BrowsersOf(w) == {b \in browsers : sessions[b].worker = w}
Terminal == {"completed", "failed"}

\* C1: a failed item (process_prompt raised inside, or returned False) never
\* aborts the loop: unless a stop was requested, the for loop ends only when
\* every item of the batch has been passed to process_prompt, and run()
\* leaves its while loop only through the iteration cap.
C1_FailureNeverAbortsLoop ==
    \A w \in Workers : ~hist[w].stopped =>
        /\ pc[w] \in {"check_max", "sleep_iter", "finally", "done"} =>
              /\ hist[w].attempted = pending_prompts[w]
              /\ Len(hist[w].results) = Len(pending_prompts[w])
        /\ pc[w] \in {"finally", "done"} =>
              /\ max_iterations[w] # Unlimited
              /\ iteration[w] >= max_iterations[w]

\* C1 witness: the first item of a batch of two raised, the second was
\* still processed (and succeeded), and the for loop has ended
C1_Witness ==
    \E w \in Workers :
        /\ ~hist[w].stopped
        /\ pc[w] = "check_max"
        /\ hist[w].results = <<FALSE, TRUE>>
        /\ errors[w] = 1

\* C2: after any sequence of processed items, errors equals the number of
\* items whose processing did not succeed (process_prompt returned False).
C2_ErrorsCountEveryFailure ==
    \A w \in Workers :
        pc[w] \notin InProcessPrompt \cup {"pp_return"} =>
            errors[w] = hist[w].failed

C4_BrowserClosedOnReturn ==
    \A w \in Workers :
        pc[w] = "pp_return" =>
            /\ driver[w] = NoDriver
            /\ BrowsersOf(w) = {}

\* C5: within one platform's loop at most one browser is alive at a time
\* (the browser of item k is gone before the one of item k+1 is launched),
\* and the browser the item's scraper drives was launched for the item being
\* processed.
C5_OneBrowserPerPlatform ==
    \A w \in Workers :
        /\ Cardinality(BrowsersOf(w)) <= 1
        /\ (pc[w] \in InProcessPrompt \ {"pp_brands", "pp_create", "pp_scraper"}
                /\ driver[w] # NoDriver) =>
              /\ sessions[driver[w]].worker = w
              /\ sessions[driver[w]].item = hist[w].items

\* C6: while one platform's item is in flight, the worker of another
\* platform that is ready to run (not yet started, or its sleep has expired)
\* can take its next step.
C6_PlatformsDoNotBlock ==
    \A w, v \in Workers :
        (/\ w # v
         /\ pc[w] \in InProcessPrompt
         /\ \/ pc[v] = "created"
            \/ pc[v] \in Sleeping /\ now >= wake[v])
        => ENABLED (RunBegin(v) \/ Wake(v))

\* C7: the query starts of two consecutive work items of one platform are
\* at least RATE_LIMIT_DELAY apart.
C7_SchedulerSpacing ==
    \A w \in Workers :
        hist[w].calls >= 2 =>
            hist[w].lastStart - hist[w].prevStart >= RATE_LIMIT_DELAY

\* C8: on one scraper instance the first enforce_rate_limit call does not
\* wait and records its time; a later call made less than RATE_LIMIT_DELAY
\* after the recorded start waits at least the remainder; a call made after
\* the delay has elapsed does not wait; so two consecutive recorded starts
\* are at least RATE_LIMIT_DELAY apart.
C8_LimiterAcquire ==
    \A w \in Workers :
        hist[w].calls >= 1 =>
            /\ last_request_time[w] = hist[w].lastStart
            /\ hist[w].lastStart <= now
            /\ hist[w].calls = 1 => hist[w].waited = 0
            /\ (hist[w].calls > 1 /\ hist[w].elapsed < RATE_LIMIT_DELAY) =>
                  hist[w].waited >= RATE_LIMIT_DELAY - hist[w].elapsed
            /\ (hist[w].calls > 1 /\ hist[w].elapsed >= RATE_LIMIT_DELAY) =>
                  hist[w].waited = 0
            /\ hist[w].calls > 1 =>
                  hist[w].lastStart - hist[w].prevStart >= RATE_LIMIT_DELAY

\* C8 witness: a second or later call that came early and had to wait
C8_Witness ==
    \E w \in Workers :
        /\ hist[w].calls >= 2
        /\ hist[w].elapsed < RATE_LIMIT_DELAY
        /\ hist[w].waited > 0

\* C9: with max_iterations = n, run() makes at most n iterations of its
\* fetch loop, whatever the store returns.
C9_IterationCap ==
    \A w \in Workers :
        max_iterations[w] # Unlimited => iteration[w] <= max_iterations[w]

\* C10 as stated: once stop() has been called on a worker, at whatever point
\* of run(), that worker fetches no further batch and starts no further item.
C10_StopAlwaysHonoured ==
    [][\A w \in Workers :
          hist[w].stopped =>
              /\ hist'[w].fetches = hist[w].fetches
              /\ hist'[w].items = hist[w].items]_vars

\* C10 amended: once stop() has been called on a worker whose run() has set
\* the running flag, that worker fetches no further batch and starts no
\* further item, and an item in flight goes on to its end (process_prompt
\* returns after its cleanup) before the loop exits.
C10_StopCooperative ==
    [][\A w \in Workers :
          hist[w].stoppedAt # "" =>
              /\ hist'[w].fetches = hist[w].fetches
              /\ hist'[w].items = hist[w].items
              /\ pc[w] \in InProcessPrompt =>
                    pc'[w] \in InProcessPrompt \cup {"pp_return"}
              /\ pc'[w] \in {"finally", "done"} =>
                    pc[w] \in {"while", "check_max", "finally", "done"}]_vars

\* C10 witness: stop() arrived during the sleep after an item, with an item
\* of the batch still to come, and run() has returned
C10_Witness ==
    \E w \in Workers :
        /\ hist[w].stoppedAt = "sleep_item"
        /\ idx[w] <= Len(pending_prompts[w])
        /\ Len(hist[w].attempted) < Len(pending_prompts[w])
        /\ pc[w] = "done"

\* C11: once stop() has been called on a running worker, run() eventually
\* returns; and whenever run() has returned (after a stop, at the iteration
\* cap or through an exception that left the loop) the running flag is false
\* and the terminal summary has been emitted exactly once, and never before
\* the return.
C11_StopTerminatesWithSummary ==
    /\ \A w \in Workers : (hist[w].stoppedAt # "") ~> (pc[w] = "done")
    /\ [](\A w \in Workers :
            /\ pc[w] = "done" => ~is_running[w] /\ hist[w].summaries = 1
            /\ pc[w] # "done" => hist[w].summaries = 0)

\* run() has returned after a stop() that found it asleep, having processed items
C11_Witness ==
    \E w \in Workers :
        /\ pc[w] = "done"
        /\ hist[w].stoppedAt \in Sleeping
        /\ ~hist[w].cancelled
        /\ hist[w].summaries = 1
        /\ hist[w].items > 0

\* C12: when the store returns an empty batch the loop sleeps the idle
\* interval (5 minutes) and then goes back to the while check, which polls
\* again while the worker is running; from the fetch to the end of that sleep
\* no item is processed, no browser is launched, no store record is created
\* or updated, and the counters and the last-success time are unchanged.
C12_EmptyBatchIdles ==
    [][\A w \in Workers :
         /\ pc[w] = "fetch" /\ pc'[w] # "fetch" =>
               /\ (pending_prompts'[w] = <<>>) = (pc'[w] = "sleep_idle")
               /\ pc'[w] = "sleep_idle" => wake'[w] = now + IDLE_SLEEP
         /\ pc[w] = "sleep_idle" /\ pc'[w] # "sleep_idle" =>
               now >= wake[w] /\ pc'[w] = "while"
         /\ pc[w] = "while" /\ pc'[w] # "while" /\ is_running[w] =>
               pc'[w] = "fetch"
         /\ pc'[w] = "sleep_idle" =>
               /\ hist'[w].items = hist[w].items
               /\ UNCHANGED <<responses, browsers, sessions, prompts_completed,
                              errors, last_scrape_at>>]_vars

\* the second poll, five minutes after a first one that came back empty
C12_Witness ==
    \E w \in Workers :
        /\ pc[w] = "fetch"
        /\ iteration[w] = 2
        /\ pending_prompts[w] = <<>>
        /\ now = StartTime + IDLE_SLEEP
        /\ hist[w].items = 0
        /\ responses = <<>>

\* proxying is mandated and no proxy can be had from the configuration
ProxyUnavailable(st) ==
    st.USE_PROXY /\ (\/ st.OXYLABS_USERNAME = ""
                     \/ st.OXYLABS_PASSWORD = ""
                     \/ st.OXYLABS_PROXY_PORTS = <<>>)
InInitialize == {"init_proxy", "init_launch", "init_cookies", "init_login"}

\* C13: with proxying mandated, an unavailable proxy (credentials missing,
\* no endpoint configured, or a connectivity test that fails) makes
\* initialize() fail before any browser is launched; and every browser
\* launched with proxying mandated is configured with a proxy, the
\* extension in a visible browser and the launch flag in a headless one.
C13_ProxyOrNoBrowser ==
    /\ ProxyUnavailable(settings) =>
          /\ sessions = <<>>
          /\ \A w \in Workers : pc[w] \in InProcessPrompt =>
                pc[w] = "init_proxy" \/ exc[w] = "Failed to initialize browser"
    /\ \A w \in Workers : \A b \in 1..Len(sessions) :
          sessions[b].worker = w => sessions[b].item \notin hist[w].proxyFailed
    /\ \A b \in 1..Len(sessions) :
          sessions[b].mandated =>
              sessions[b].proxy = IF settings.HEADLESS THEN "flag"
                                  ELSE "extension"

\* the connectivity test has failed and initialize() has returned False
\* without a browser
C13_Witness ==
    \E w \in Workers :
        /\ ProxyTested(settings)
        /\ ~ProxyUnavailable(settings)
        /\ hist[w].proxyFailed # {}
        /\ exc[w] = "Failed to initialize browser"
        /\ pc[w] = "pp_except"
        /\ sessions = <<>>

\* what _setup_proxy reports when it returns False
ProxyReasons == {"USE_PROXY is True but Oxylabs credentials are missing!",
                 "Proxy connection test failed!"}

\* C14: when the proxy connectivity test fails while proxying is mandated,
\* the record of the work item is marked 'failed' and the error message
\* stored with it names the proxy failure.
C14_ProxyFailureRecorded ==
    \A w \in Workers : \A i \in 1..Len(responses) :
        ( /\ responses[i].worker = w
          /\ responses[i].item \in hist[w].proxyFailed
          /\ Returned(w, responses[i].item) ) =>
            /\ responses[i].status = "failed"
            /\ responses[i].error_message \in ProxyReasons

\* C15: the persisted session of a platform (the cookie file and the
\* store row with its logged-in flag) is written only on a successful
\* login, and at most once per browser session: a session whose last login
\* check failed has written nothing, the cookie file never holds the
\* cookies of a browser that was not logged in, and a store row marked
\* logged in holds the cookies of a logged-in browser.
C15_SessionSavedOnLoginOnly ==
    /\ \A b \in 1..Len(sessions) :
          /\ sessions[b].writes <= 1
          /\ sessions[b].writes = 1 => sessions[b].logged_in
    /\ \A w \in Workers :
          /\ \A i \in 1..Len(cookies_file[w]) :
                cookies_file[w][i].value = "user"
          /\ scraper_sessions[w].is_logged_in =>
                \A i \in 1..Len(scraper_sessions[w].cookies) :
                    scraper_sessions[w].cookies[i].value = "user"

\* C16: the manual login flow is entered only when the first login check
\* of the session failed and cookie loading was requested; when the login
\* check still fails after the wait, initialize() fails (the session ends
\* with "Failed to initialize browser") and no prompt is submitted in that
\* session.
C16_ManualLoginGate ==
    \A b \in 1..Len(sessions) :
        LET w == sessions[b].worker IN
        /\ sessions[b].manual > 0 =>
              load_cookies[w] /\ sessions[b].first_check = "failed"
        /\ (sessions[b].manual > 0 /\ ~sessions[b].logged_in) =>
              /\ sessions[b].submitted = 0
              /\ pc[w] \in {"qfb_finally", "pp_except"}
              /\ exc[w] = "Failed to initialize browser"

\* a session whose manual login window ended without a login has been
\* closed without a prompt
C16_Witness ==
    \E b \in 1..Len(sessions) :
        /\ sessions[b].manual = 1
        /\ sessions[b].first_check = "failed"
        /\ ~sessions[b].logged_in
        /\ sessions[b].submitted = 0
        /\ pc[sessions[b].worker] = "pp_except"
        /\ now >= StartTime + LOGIN_WAIT

\* C17: _wait_for_response of every adapter terminates.  The polling loop
\* is never found more than one poll delay past the 120 s ceiling, it is left
\* only through its end (for ChatGPT also through a poll that raises), from
\* where the text extraction follows; so when the completion condition is
\* never met, the text is still extracted (or the extraction itself raises).
C17_WaitTerminates ==
    /\ \A w \in Workers :
          (pc[w] \in {"wait_begin", "wait"}) ~> (pc[w] \in {"extracted", "raised"})
    /\ [](\A w \in Workers :
            pc[w] = "wait" => now - start_time[w] <= MAX_WAIT + 1)
    /\ [][\A w \in Workers :
            /\ pc[w] = "wait" /\ pc'[w] # "wait" =>
                  \/ pc'[w] = "wait_end"
                  \/ pc'[w] = "raised" /\ ai_source[w] = "chatgpt"
            /\ pc[w] = "wait_end" /\ pc'[w] # "wait_end" =>
                  pc'[w] = "extract"
            /\ hist'[w].ceiling /\ ~hist[w].ceiling =>
                  now - start_time[w] >= MAX_WAIT /\ pc'[w] = "wait_end"]_vars

\* Gemini never finished generating, and the text has been extracted
C17_Witness ==
    \E w \in Workers :
        /\ ai_source[w] = "gemini"
        /\ hist[w].ceiling
        /\ pc[w] = "extracted"
        /\ now >= StartTime + INITIAL_DELAY + MAX_WAIT

\* C18: _extract_response of every adapter never returns an empty or
\* whitespace-only text: when the primary extraction is blank the fallback
\* is used, and when the fallback is blank too (no element, an element
\* without text, or an extraction that raises) the text returned is the
\* sentinel 'No response extracted'.
C18_ExtractNeverBlank ==
    \A w \in Workers :
        pc[w] = "extracted" =>
            /\ ~is_blank(result[w])
            /\ ~is_blank(hist[w].page.primary) =>
                  result[w] = hist[w].page.primary
            /\ ( /\ is_blank(hist[w].page.primary)
                 /\ \/ ~hist[w].page.fbOk
                    \/ \A k \in 1..Len(hist[w].page.elements) :
                          is_blank(hist[w].page.elements[k]) ) =>
                  result[w] = NO_RESPONSE

\* C19: a query whose extracted text is the sentinel 'No response
\* extracted' is a soft failure for the caller: its text is stored, the
\* record is not marked 'failed', and the record carries a flag (its status
\* or its error message) that tells it from an ordinary completed response.
C19_SentinelFlagged ==
    \A i \in 1..Len(responses) :
        responses[i].response_text = NO_RESPONSE =>
            /\ responses[i].status # "failed"
            /\ ~(responses[i].status = "completed"
                 /\ responses[i].error_message = "")

\* _load_and_apply_cookies on a freshly launched browser, for every
\* platform and every cookie file of at most MaxCookies cookies
CookieDomains ==
    {<<".", "c", "h", "a", "t", "g", "p", "t", ".", "c", "o", "m">>,
     <<"a", "u", "t", "h", ".", "c", "h", "a", "t", "g", "p", "t", ".", "c", "o", "m">>,
     <<"t", ".", "c", "o">>,
     <<".", "g", "o", "o", "g", "l", "e", ".", "c", "o", "m">>,
     <<"g", "e", "m", "i", "n", "i", ".", "g", "o", "o", "g", "l", "e", ".", "c", "o", "m">>,
     <<"w", "w", "w", ".", "p", "e", "r", "p", "l", "e", "x", "i", "t", "y", ".", "a", "i">>}

Cookies ==
    {[name |-> "session", hasDomain |-> TRUE, domain |-> d, value |-> "user",
      sameSite |-> f[1], secure |-> f[2]] :
        d \in CookieDomains,
        f \in {<<"None", FALSE>>, <<"None", TRUE>>, <<"Lax", TRUE>>}}
    \cup {[name |-> "session", hasDomain |-> FALSE, domain |-> <<>>,
           value |-> "user", sameSite |-> "None", secure |-> FALSE]}

CookieFiles ==
    UNION {[1..n -> Cookies] : n \in 0..MaxCookies}

InitCookies ==
    /\ now = StartTime
    /\ loop = 1
    /\ \E src \in SupportedSources : ai_source = [w \in Workers |-> src]
    /\ pc = [w \in Workers |-> IF w = 1 THEN "init_cookies" ELSE "absent"]
    /\ wake = [w \in Workers |-> 0]
    /\ is_running = [w \in Workers |-> FALSE]
    /\ iteration = [w \in Workers |-> 0]
    /\ max_iterations = [w \in Workers |-> Unlimited]
    /\ prompts_completed = [w \in Workers |-> 0]
    /\ errors = [w \in Workers |-> 0]
    /\ last_scrape_at = [w \in Workers |-> 0]
    /\ pending_prompts = [w \in Workers |-> <<>>]
    /\ idx = [w \in Workers |-> 0]
    /\ brands = [w \in Workers |-> <<>>]
    /\ response_record = [w \in Workers |-> NoRecord]
    /\ scraper = [w \in Workers |-> w = 1]
    /\ exc = [w \in Workers |-> ""]
    /\ retval = [w \in Workers |-> FALSE]
    /\ driver = [w \in Workers |-> IF w = 1 THEN 1 ELSE NoDriver]
    /\ last_request_time = [w \in Workers |-> 0]
    /\ responses = <<>>
    /\ browsers = {1}
    /\ sessions = <<NewSession(1, 0, DeployedSettings, "8001", 1)>>
    /\ faults = 0
    /\ hist = [w \in Workers |-> NewHist]
    /\ \E b \in BOOLEAN : load_cookies = [w \in Workers |-> b]
    /\ driver_cookies = [w \in Workers |-> <<>>]
    /\ start_time = [w \in Workers |-> 0]
    /\ result = [w \in Workers |-> <<>>]
    /\ brands_mentioned = [w \in Workers |-> <<>>]
    /\ settings = DeployedSettings
    /\ \E f \in CookieFiles : cookies_file = [w \in Workers |-> f]
    /\ scraper_sessions = [w \in Workers |-> NoRow]
    /\ InitCapture
    /\ InitRegistry

NextCookies ==
    \E w \in Workers, rejected \in SUBSET (1..MaxCookies) :
        LoadAndApplyCookies(w, rejected)

SpecCookies == InitCookies /\ [][NextCookies]_vars

\* a is a subdomain of b: a ends with "." followed by b
IsSubdomain(a, b) ==
    /\ Len(a) > Len(b) + 1
    /\ SubSeq(a, Len(a) - Len(b), Len(a)) = <<".">> \o b

\* the stored domain is the page domain, a parent of it or a child of it
DomainRelated(cd, cur) ==
    cd = cur \/ IsSubdomain(cur, cd) \/ IsSubdomain(cd, cur)

\* C20: once the cookies of the file have been applied, a cookie with a
\* stored domain is in the browser if and only if that domain is the page
\* domain or a parent or child of it and the browser did not refuse it, so
\* that no other cookie's fate changes it; and a cookie added from a file
\* entry with sameSite None and no secure flag carries no sameSite
C20_CookieDomainFilter ==
    \A w \in Workers :
        (pc[w] = "init_login" /\ load_cookies[w]) =>
            /\ \A k \in 1..Len(cookies_file[w]) :
                  cookies_file[w][k].hasDomain =>
                      (k \in hist[w].added <=>
                          /\ DomainRelated(strip_dot(cookies_file[w][k].domain),
                                           current_domain(ai_source[w]))
                          /\ k \notin hist[w].rejected)
            /\ \A j \in 1..Len(driver_cookies[w]) :
                  ~(driver_cookies[w][j].sameSite = "None"
                      /\ ~driver_cookies[w][j].secure)

\* a is a prefix of b
IsPrefix(a, b) == Len(a) <= Len(b) /\ SubSeq(b, 1, Len(a)) = a

\* run() is past the for loop of the iteration
ForLoopLeft == {"check_max", "sleep_iter"}

\* C21: the prompts passed to process_prompt since the last fetch are, in
\* order, a prefix of the batch that fetch returned; once the for loop is
\* left the prefix is the whole batch unless stop() has been called.
C21_BatchOrder ==
    \A w \in Workers :
        /\ IsPrefix(hist[w].attempted, pending_prompts[w])
        /\ (pc[w] \in ForLoopLeft /\ ~hist[w].stopped) =>
              hist[w].attempted = pending_prompts[w]

\* a batch of two prompts has been attempted in full, without a stop
C21_Witness ==
    \E w \in Workers :
        /\ pc[w] = "check_max"
        /\ ~hist[w].stopped
        /\ Len(pending_prompts[w]) = 2
        /\ hist[w].attempted = pending_prompts[w]

\* C22: driver.quit() never runs while the screenshot thread of the
\* scraper is alive, and a living screenshot thread always has its browser:
\* the thread has ended before cleanup() terminates the browser.
C22_CaptureJoinedBeforeQuit ==
    \A w \in Workers :
        /\ ~hist[w].quitWithCapture
        /\ screenshot_thread[w].alive =>
              (driver[w] # NoDriver /\ driver[w] \in browsers)

\* extract_brands on the text that _extract_response returned, for every
\* text of at most MaxTokens pieces and every candidate list of at most
\* MaxBrands names
CandidateBrands ==
    {<<"H", "u", "b", "S", "p", "o", "t">>,
     <<"Z", "o", "h", "o", " ", "C", "R", "M">>,
     <<"A", "c", "t", "!">>}

CandidateLists ==
    UNION {[1..n -> CandidateBrands] : n \in 0..MaxBrands}

TextTokens ==
    {<<"H", "u", "b", "S", "p", "o", "t">>,
     <<"h", "u", "b">>,
     <<"s", "p", "o", "t">>,
     <<" ">>,
     <<"A", "c", "t", "!">>,
     <<"z", "o", "h", "o">>,
     <<"x">>,
     <<".">>}

RECURSIVE TextsOf(_)
TextsOf(n) ==
    IF n = 0 THEN {<<>>}
    ELSE TextsOf(n - 1) \cup {t \o k : t \in TextsOf(n - 1), k \in TextTokens}

BrandTexts == TextsOf(MaxTokens)

InitBrands ==
    /\ now = StartTime
    /\ loop = 1
    /\ ai_source = [w \in Workers |-> "chatgpt"]
    /\ pc = [w \in Workers |-> IF w = 1 THEN "extract" ELSE "absent"]
    /\ wake = [w \in Workers |-> 0]
    /\ is_running = [w \in Workers |-> FALSE]
    /\ iteration = [w \in Workers |-> 0]
    /\ max_iterations = [w \in Workers |-> Unlimited]
    /\ prompts_completed = [w \in Workers |-> 0]
    /\ errors = [w \in Workers |-> 0]
    /\ last_scrape_at = [w \in Workers |-> 0]
    /\ pending_prompts = [w \in Workers |-> <<>>]
    /\ idx = [w \in Workers |-> 0]
    /\ \E l \in CandidateLists : brands = [w \in Workers |-> l]
    /\ response_record = [w \in Workers |-> NoRecord]
    /\ scraper = [w \in Workers |-> w = 1]
    /\ exc = [w \in Workers |-> ""]
    /\ retval = [w \in Workers |-> FALSE]
    /\ driver = [w \in Workers |-> IF w = 1 THEN 1 ELSE NoDriver]
    /\ last_request_time = [w \in Workers |-> 0]
    /\ responses = <<>>
    /\ browsers = {1}
    /\ sessions = <<[NewSession(1, 0, DeployedSettings, "8001", 1) EXCEPT
                       !.first_check = "ok", !.logged_in = TRUE,
                       !.submitted = 1]>>
    /\ faults = 0
    /\ hist = [w \in Workers |-> NewHist]
    /\ InitScraper

NextBrands ==
    \E w \in Workers, primary \in BrandTexts, elements \in {<<>>, << <<>> >>} :
        Extract(w, TRUE, primary, elements, TRUE)

SpecBrands == InitBrands /\ [][NextBrands]_vars

\* the elements of a list
Range(l) == {l[i] : i \in 1..Len(l)}

\* the name occurs in the text, in any letter case, with no letter, digit
\* or underscore next to it on either side
StandaloneIn(name, text) ==
    \E i \in 0..(Len(text) - Len(name)) :
        /\ SubSeq(lower(text), i + 1, i + Len(name)) = lower(name)
        /\ i = 0 \/ ~word_char(text[i])
        /\ i + Len(name) = Len(text) \/ ~word_char(text[i + Len(name) + 1])

\* C23: after extract_brands, every candidate that occurs in the text as a
\* standalone word, in any letter case, is among the brands mentioned.
C23_ExactMatchIncluded ==
    \A w \in Workers :
        pc[w] = "extracted" =>
            \A i \in 1..Len(brands[w]) :
                StandaloneIn(brands[w][i], result[w]) =>
                    brands[w][i] \in Range(brands_mentioned[w])

\* the letters, digits and underscores of a text, in lower case
skeleton(t) == SelectSeq(lower(t), word_char)

\* the forms under which a brand is looked for: its name and the
\* variations of _get_brand_variations
FormsOf(brand) == {brand} \cup Range(get_brand_variations(brand))

\* C24 as stated: when no candidate's name occurs in the text (in any
\* letter case), and when the text or the candidate list is empty, no
\* brand is mentioned.
C24_NoCandidateNoResult ==
    \A w \in Workers :
        pc[w] = "extracted" =>
            ((\A i \in 1..Len(brands[w]) :
                  ~IsSubstring(lower(brands[w][i]), lower(result[w])))
                => brands_mentioned[w] = <<>>)

\* C24 amended: when no form of any candidate (its name, an alias or its
\* name without a suffix) occurs in the text even with letter case, spacing
\* and punctuation ignored, and when the text or the candidate list is
\* empty, no brand is mentioned.
C24_NoFormNoResult ==
    \A w \in Workers :
        pc[w] = "extracted" =>
            /\ (\A i \in 1..Len(brands[w]) :
                   \A f \in FormsOf(brands[w][i]) :
                       ~IsSubstring(skeleton(f), skeleton(result[w])))
                  => brands_mentioned[w] = <<>>
            /\ (result[w] = <<>> \/ brands[w] = <<>>)
                  => brands_mentioned[w] = <<>>

\* a text with words in it and two candidates, none of them in the text in
\* any form, gave the empty result
C24_Witness ==
    \E w \in Workers :
        /\ pc[w] = "extracted"
        /\ Len(skeleton(result[w])) > 1
        /\ Len(brands[w]) = 2
        /\ \A i \in 1..Len(brands[w]) :
              \A f \in FormsOf(brands[w][i]) :
                  ~IsSubstring(skeleton(f), skeleton(result[w]))
        /\ brands_mentioned[w] = <<>>

\* query() has returned a ScraperResponse for the item being processed
ResponseInHand(w) ==
    \/ pc[w] = "extracted"
    \/ pc[w] \in {"qfb_finally", "pp_update"} /\ exc[w] = ""

\* C25: the brands mentioned of a response are, each once, among the
\* candidates that were passed in, and the brands stored with a completed
\* record are among the brand names of the category of its prompt.
C25_MentionedSubsetOfRequested ==
    /\ \A w \in Workers :
          /\ ResponseInHand(w) =>
                Range(brands_mentioned[w]) \subseteq Range(brands[w])
          /\ Cardinality(Range(brands_mentioned[w])) = Len(brands_mentioned[w])
    /\ \A i \in 1..Len(responses) :
          /\ Range(responses[i].brands_mentioned)
                \subseteq Range(BrandsOf(CategoryOf(responses[i].prompt_id)))
          /\ Cardinality(Range(responses[i].brands_mentioned))
                = Len(responses[i].brands_mentioned)

\* a completed record holds both brands of the category
C25_Witness ==
    \E i \in 1..Len(responses) :
        /\ responses[i].status = "completed"
        /\ Len(responses[i].brands_mentioned) = 2

\* C26: whenever the send control could not be clicked within the wait,
\* _send_message has submitted the prompt with the Enter key, whatever the
\* platform.
C26_SendFallsBackToEnter ==
    \A w \in Workers :
        hist[w].control = "timeout" => hist[w].sent = "enter"

\* C27: when the Perplexity adapter is past its polling loop without having
\* run into the ceiling, the poll that left the loop found a response
\* container whose rendered text, trimmed, is longer than 10 characters,
\* and did not raise.
C27_PerplexityCompletion ==
    \A w \in Workers :
        (/\ ai_source[w] = "perplexity"
         /\ pc[w] \in {"wait_end", "extract", "extracted"}
         /\ ~hist[w].ceiling) =>
            /\ ~hist[w].seen.raises
            /\ hist[w].seen.container
            /\ hist[w].seen.prose
            /\ Len(strip(hist[w].seen.text)) > 10

\* the loop was left on a container with eleven characters of text, after
\* polls that did not count as completion
C27_Witness ==
    \E w \in Workers :
        /\ ai_source[w] = "perplexity"
        /\ pc[w] = "wait_end"
        /\ ~hist[w].ceiling
        /\ Len(hist[w].seen.text) = 11
        /\ now > start_time[w]

\* ------------------------------------------------- the /scrape endpoint
\* how initialize() of a new scraper ends: True; False with no browser
\* launched; False with the browser launched (not logged in, or an
\* exception after the launch)
InitOutcomes == {"ok", "launch_failed", "login_failed"}

\* scrapers[request.ai_source] = scraper
cache_scraper(reg, src, s) == (src :> s) @@ reg

\* del scrapers[request.ai_source]
evict_scraper(reg, src) == [p \in (DOMAIN reg) \ {src} |-> reg[p]]

\* one request to /scrape for platform src, from the lookup in the registry
\* to the response.  No await of the handler suspends it, so requests are
\* served one after the other.  init is how initialize() ends when a scraper
\* is created, queryOk whether query() returns, quit how driver.quit() ends
\* when the handler cleans up
ScrapeEndpoint(src, init, queryOk, quit) ==
    LET cached == src \in DOMAIN scrapers
        launched == ~cached /\ init # "launch_failed"
        created == [driver |-> IF launched THEN Len(requests) + 1 ELSE NoDriver,
                    initialized |-> init = "ok"]
        used == IF cached THEN scrapers[src] ELSE created
        initFailed == ~cached /\ init # "ok"
        failed == initFailed \/ ~queryOk
        registry == IF initFailed THEN scrapers
                    ELSE cache_scraper(scrapers, src, used)
        evicted == failed /\ src \in DOMAIN registry
        running == IF launched THEN browsers \cup {created.driver}
                   ELSE browsers
    IN /\ Len(requests) < MaxRequests
       /\ cached => init = "ok"
       /\ initFailed => queryOk
       /\ ~evicted => quit = "ok"
       /\ scrapers' = IF evicted THEN evict_scraper(registry, src)
                      ELSE registry
       /\ browsers' = IF evicted
                      THEN CleanupBrowsers(running, used.driver,
                                           quit # "raised_alive")
                      ELSE running
       /\ requests' = Append(requests,
                             [ai_source |-> src, created |-> ~cached,
                              scraper |-> used, success |-> ~failed,
                              cleaned |-> evicted])
       /\ UNCHANGED <<now, faults, loop, workerVars, itemVars, responses,
                      sessions, hist>>
       /\ UNCHANGED <<load_cookies, driver_cookies, start_time, result,
                      brands_mentioned, settings, cookies_file,
                      scraper_sessions, captureVars>>

\* the service right after startup: no worker, no scraper
InitScrape ==
    /\ now = StartTime
    /\ loop = NoWorker
    /\ ai_source = [w \in Workers |-> "chatgpt"]
    /\ pc = [w \in Workers |-> "absent"]
    /\ wake = [w \in Workers |-> 0]
    /\ is_running = [w \in Workers |-> FALSE]
    /\ iteration = [w \in Workers |-> 0]
    /\ max_iterations = [w \in Workers |-> Unlimited]
    /\ prompts_completed = [w \in Workers |-> 0]
    /\ errors = [w \in Workers |-> 0]
    /\ last_scrape_at = [w \in Workers |-> 0]
    /\ pending_prompts = [w \in Workers |-> <<>>]
    /\ idx = [w \in Workers |-> 0]
    /\ brands = [w \in Workers |-> <<>>]
    /\ response_record = [w \in Workers |-> NoRecord]
    /\ scraper = [w \in Workers |-> FALSE]
    /\ exc = [w \in Workers |-> ""]
    /\ retval = [w \in Workers |-> FALSE]
    /\ driver = [w \in Workers |-> NoDriver]
    /\ last_request_time = [w \in Workers |-> 0]
    /\ responses = <<>>
    /\ browsers = {}
    /\ sessions = <<>>
    /\ faults = 0
    /\ hist = [w \in Workers |-> NewHist]
    /\ InitScraper

\* one request to /scrape/prompt for prompt p on platform src, from
\* db.get_prompt to the response.  found is whether get_prompt returns the
\* prompt, brandsOk whether get_brand_names answers, createOk whether
\* create_response returns a record, queryOk whether
\* query_with_fresh_browser returns a result, storeOk whether the update
\* reaches the store, quit how driver.quit() ends in the finally of
\* query_with_fresh_browser.  The handler of `except Exception` only raises
\* HTTPException(500)
scrape_prompt(p, src, found, brandsOk, createOk, queryOk, storeOk, quit) ==
    LET brand_list == get_brand_names(CategoryOf(p), brandsOk)
        reached == found /\ brand_list # <<>> /\ createOk
        id == Len(responses) + 1
        d == MaxRequests + id
        created == Append(responses, NewResponse(p, src, now, NoWorker, 0))
    IN /\ Len(responses) < MaxRequests
       /\ ~found => brandsOk
       /\ ~(found /\ brand_list # <<>>) => createOk
       /\ ~reached => (queryOk /\ quit = "ok")
       /\ ~(reached /\ queryOk) => storeOk
       /\ Fault(~(found /\ brandsOk /\ createOk /\ queryOk /\ storeOk
                  /\ quit = "ok"))
       /\ responses' =
             IF ~reached THEN responses
             ELSE IF queryOk
                  THEN update_response(created, id, Answer,
                                       mentions_of(Answer, brand_list),
                                       "completed", "", storeOk)
                  ELSE created
       /\ browsers' = IF reached
                      THEN CleanupBrowsers(browsers \cup {d}, d,
                                           quit # "raised_alive")
                      ELSE browsers
       /\ UNCHANGED <<now, loop, workerVars, itemVars, sessions, hist>>
       /\ UNCHANGED <<load_cookies, driver_cookies, start_time, result,
                      brands_mentioned, settings, scrapers, requests,
                      cookies_file, scraper_sessions, captureVars>>

NextScrape ==
    \E src \in SupportedSources, init \in InitOutcomes, queryOk \in BOOLEAN,
       quit \in QuitOutcomes :
        ScrapeEndpoint(src, init, queryOk, quit)

NextScrapePrompt ==
    \E p \in Prompts, src \in SupportedSources, found \in BOOLEAN,
       brandsOk \in BOOLEAN, createOk \in BOOLEAN, queryOk \in BOOLEAN,
       storeOk \in BOOLEAN, quit \in QuitOutcomes :
        scrape_prompt(p, src, found, brandsOk, createOk, queryOk, storeOk,
                      quit)

SpecScrapePrompt == InitScrape /\ [][NextScrapePrompt]_vars

SpecScrape == InitScrape /\ [][NextScrape]_vars

\* C28: after a failed request the registry holds no scraper for the
\* platform of that request, and the scraper the request failed with has had
\* cleanup() run on it if it launched a browser; the next request for that
\* platform creates a new scraper; and every scraper in the registry has
\* been initialized successfully.
C28_RegistryEviction ==
    /\ \A i \in 1..Len(requests) :
          ~requests[i].success =>
             /\ requests[i].scraper.driver # NoDriver => requests[i].cleaned
             /\ i = Len(requests) => requests[i].ai_source \notin DOMAIN scrapers
             /\ (i < Len(requests)
                 /\ requests[i + 1].ai_source = requests[i].ai_source)
                    => requests[i + 1].created
    /\ \A src \in DOMAIN scrapers : scrapers[src].initialized

\* ------------------------------------------- the freshness-window re-fetch
\* a worker started while the store holds, for the first prompt, a record
\* that an earlier update left in 'processing'; the record was created one
\* second less than the freshness window before the start
RefetchLead == 1
InitRefetch ==
    /\ now = StartTime
    /\ loop = NoWorker
    /\ ai_source = [w \in Workers |-> "chatgpt"]
    /\ pc = [w \in Workers |-> IF w = 1 THEN "created" ELSE "absent"]
    /\ wake = [w \in Workers |-> 0]
    /\ is_running = [w \in Workers |-> FALSE]
    /\ iteration = [w \in Workers |-> 0]
    /\ \E n \in {Unlimited, 2} : max_iterations = [w \in Workers |-> n]
    /\ prompts_completed = [w \in Workers |-> 0]
    /\ errors = [w \in Workers |-> 0]
    /\ last_scrape_at = [w \in Workers |-> 0]
    /\ pending_prompts = [w \in Workers |-> <<>>]
    /\ idx = [w \in Workers |-> 0]
    /\ brands = [w \in Workers |-> <<>>]
    /\ response_record = [w \in Workers |-> NoRecord]
    /\ scraper = [w \in Workers |-> FALSE]
    /\ exc = [w \in Workers |-> ""]
    /\ retval = [w \in Workers |-> FALSE]
    /\ driver = [w \in Workers |-> NoDriver]
    /\ last_request_time = [w \in Workers |-> 0]
    /\ responses = <<NewResponse(1, "chatgpt",
                                 StartTime + RefetchLead - FRESHNESS_WINDOW,
                                 1, 0)>>
    /\ browsers = {}
    /\ sessions = <<>>
    /\ faults = 0
    /\ hist = [w \in Workers |-> NewHist]
    /\ InitScraper

SpecRefetch ==
    InitRefetch /\ [][NextLive]_vars /\ WF_vars(RunStep \/ TickStopped)

\* prompt p has a record of the worker's platform left in 'processing' whose
\* creation lies more than the window back, and none inside the window
LeftProcessing(w, p) ==
    /\ \E i \in 1..Len(responses) :
          /\ responses[i].prompt_id = p
          /\ responses[i].ai_source = ai_source[w]
          /\ responses[i].status = "processing"
          /\ responses[i].created_at < now - FRESHNESS_WINDOW
    /\ \A i \in 1..Len(responses) :
          (responses[i].prompt_id = p /\ responses[i].ai_source = ai_source[w])
             => responses[i].created_at < now - FRESHNESS_WINDOW

\* the worker is not running any more, or what it would do next does not
\* fit before the horizon
NotKeptRunning(w) ==
    \/ hist[w].stopped
    \/ hist[w].cancelled
    \/ pc[w] \in {"finally", "done"}
    \/ pc[w] \in Sleeping /\ wake[w] > MaxTime
    \/ now + RATE_LIMIT_DELAY > MaxTime

C30_OneEndpointPerSession ==
    \A b \in 1..Len(sessions) :
        (sessions[b].mandated /\ sessions[b].proxy # "direct") =>
            sessions[b].endpoint = sessions[b].tested

\* C31: when the store holds the cookies of a successful interactive login
\* and the cookie file is missing, a session that loads cookies applies the
\* cookies of the store: after _load_and_apply_cookies, with no cookie
\* refused by the browser, the browser holds them.
C31_StoreCookiesReloaded ==
    \A w \in Workers :
        (/\ pc[w] = "init_login"
         /\ load_cookies[w]
         /\ scraper_sessions[w].is_logged_in
         /\ scraper_sessions[w].cookies = get_cookies(ai_source[w], TRUE)
         /\ cookies_file[w] = <<>>
         /\ hist[w].rejected = {}) =>
            driver_cookies[w] = scraper_sessions[w].cookies


\* C32: the completed counter of a worker agrees with the store:
\* prompts_completed is the number of response records the worker has
\* brought to status 'completed', and last_scrape_at is set exactly when
\* prompts_completed is positive.
C32_CounterAgreesWithStore ==
    \A w \in Workers :
        /\ prompts_completed[w] =
               Cardinality({id \in DOMAIN responses :
                               /\ responses[id].worker = w
                               /\ responses[id].status = "completed"})
        /\ (last_scrape_at[w] # 0) <=> (prompts_completed[w] > 0)


C34_FailedInitLeavesNoBrowser ==
    \A i \in 1..Len(requests) :
        (/\ requests[i].created
         /\ ~requests[i].scraper.initialized
         /\ requests[i].scraper.driver # NoDriver) =>
            requests[i].scraper.driver \notin browsers


\* C35: every response record a request to /scrape/prompt created in
\* status 'processing' has been updated to 'completed' or 'failed' when the
\* request has returned, also when the fresh-browser query raised.
C35_PromptRequestSettlesRecord ==
    \A id \in DOMAIN responses :
        responses[id].worker = NoWorker =>
            responses[id].status \in {"completed", "failed"}


\* ------------------------------------------ the scheduler loop, clocks aside
\* a prompts table whose first BATCH_LIMIT rows are prompts of the category
\* without brands, followed by the prompts of Prompts
BrandlessFirstTable ==
    [i \in 1..(BATCH_LIMIT + NumPrompts) |->
        IF i <= BATCH_LIMIT THEN NumPrompts + i ELSE i - BATCH_LIMIT]

\* run(): pending_prompts = await db.get_pending_prompts(.., limit=15); an
\* empty batch sleeps and fetches again.  The sleeps of the loop are taken as
\* elapsed; they are short against the freshness window, so `now` stands
\* still
FetchBatch(w, storeOk) ==
    /\ pc[w] = "fetch"
    /\ Fault(~storeOk)
    /\ LET pending == get_pending_prompts(BrandlessFirstTable, responses,
                                          ai_source[w], now, storeOk)
       IN /\ pending_prompts' = [pending_prompts EXCEPT ![w] = pending]
          /\ idx' = [idx EXCEPT ![w] = 1]
          /\ pc' = [pc EXCEPT ![w] = IF pending = <<>> THEN "fetch" ELSE "for"]
    /\ UNCHANGED <<now, loop, ai_source, wake, is_running, iteration,
                   max_iterations, prompts_completed, errors, last_scrape_at,
                   itemVars, worldVars, hist>>
    /\ UNCHANGED scraperVars

\* run(): one pass of `for prompt in pending_prompts`: process_prompt from
\* get_brand_names to its finally clause, then the sleep between prompts.
\* The browser of query_with_fresh_browser is opened and closed inside
ProcessPrompt(w, brandsOk, createOk, queryOk, storeOk) ==
    LET p == CurrentPrompt(w)
        bs == get_brand_names(CategoryOf(p), brandsOk)
        reached == bs # <<>> /\ createOk
        id == Len(responses) + 1
        created == Append(responses, NewResponse(p, ai_source[w], now, w, 0))
    IN /\ pc[w] = "for"
       /\ idx[w] <= Len(pending_prompts[w])
       /\ bs = <<>> => createOk
       /\ ~reached => (queryOk /\ storeOk)
       /\ Fault(~(brandsOk /\ createOk /\ queryOk /\ storeOk))
       /\ responses' =
             IF ~reached THEN responses
             ELSE IF queryOk
                  THEN update_response(created, id, Answer,
                                       mentions_of(Answer, bs),
                                       "completed", "", storeOk)
                  ELSE update_response(created, id, <<>>, <<>>, "failed",
                                       "Failed to initialize browser",
                                       storeOk)
       /\ prompts_completed' =
             [prompts_completed EXCEPT
                 ![w] = IF reached /\ queryOk THEN @ + 1 ELSE @]
       /\ last_scrape_at' =
             [last_scrape_at EXCEPT
                 ![w] = IF reached /\ queryOk THEN now ELSE @]
       /\ errors' = [errors EXCEPT
                        ![w] = IF reached /\ ~queryOk THEN @ + 1 ELSE @]
       /\ idx' = [idx EXCEPT ![w] = @ + 1]
       /\ UNCHANGED <<now, loop, ai_source, pc, wake, is_running, iteration,
                      max_iterations, pending_prompts, itemVars, browsers,
                      sessions, hist>>
       /\ UNCHANGED scraperVars

\* run(): the for loop is exhausted; max_iterations is None, so after the
\* sleep between iterations the while loop fetches again
BatchDone(w) ==
    /\ pc[w] = "for"
    /\ idx[w] > Len(pending_prompts[w])
    /\ pc' = [pc EXCEPT ![w] = "fetch"]
    /\ UNCHANGED <<now, faults, loop, ai_source, wake, is_running, iteration,
                   max_iterations, prompts_completed, errors, last_scrape_at,
                   pending_prompts, idx, itemVars, worldVars, hist>>
    /\ UNCHANGED scraperVars

\* one worker per platform, each in its while loop, about to fetch
InitScheduler ==
    /\ now = StartTime
    /\ loop = NoWorker
    /\ ai_source = [w \in Workers |-> IF w = 1 THEN "chatgpt" ELSE "gemini"]
    /\ pc = [w \in Workers |-> "fetch"]
    /\ wake = [w \in Workers |-> 0]
    /\ is_running = [w \in Workers |-> TRUE]
    /\ iteration = [w \in Workers |-> 1]
    /\ max_iterations = [w \in Workers |-> Unlimited]
    /\ prompts_completed = [w \in Workers |-> 0]
    /\ errors = [w \in Workers |-> 0]
    /\ last_scrape_at = [w \in Workers |-> 0]
    /\ pending_prompts = [w \in Workers |-> <<>>]
    /\ idx = [w \in Workers |-> 1]
    /\ brands = [w \in Workers |-> <<>>]
    /\ response_record = [w \in Workers |-> NoRecord]
    /\ scraper = [w \in Workers |-> FALSE]
    /\ exc = [w \in Workers |-> ""]
    /\ retval = [w \in Workers |-> FALSE]
    /\ driver = [w \in Workers |-> NoDriver]
    /\ last_request_time = [w \in Workers |-> 0]
    /\ responses = <<>>
    /\ browsers = {}
    /\ sessions = <<>>
    /\ faults = 0
    /\ hist = [w \in Workers |-> NewHist]
    /\ InitScraper

SchedulerStep(w) ==
    \/ \E storeOk \in BOOLEAN : FetchBatch(w, storeOk)
    \/ \E brandsOk \in BOOLEAN, createOk \in BOOLEAN, queryOk \in BOOLEAN,
          storeOk \in BOOLEAN :
           ProcessPrompt(w, brandsOk, createOk, queryOk, storeOk)
    \/ BatchDone(w)

NextScheduler == \E w \in Workers : SchedulerStep(w)

\* every worker keeps running; the store fails MaxFaults times at most
SpecScheduler ==
    /\ InitScheduler
    /\ [][NextScheduler]_vars
    /\ \A w \in Workers : WF_vars(SchedulerStep(w))

\* C36: no starvation in the scheduler: with a worker that keeps running
\* and a store that keeps answering, every prompt of the prompts table that
\* has brands and is pending for the platform eventually has a response
\* record of that platform, whatever becomes of the other pending prompts.
C36_NoStarvation ==
    \A w \in Workers : \A p \in Prompts :
        <>(\E i \in 1..Len(responses) :
              /\ responses[i].prompt_id = p
              /\ responses[i].ai_source = ai_source[w])


\* C37: one scheduler loop never attempts the same prompt twice within the
\* freshness window: two response records of the same worker for the same
\* prompt and platform are created more than the window apart.
C37_OneAttemptPerWindow ==
    \A i, j \in 1..Len(responses) :
        (/\ i < j
         /\ responses[i].worker = responses[j].worker
         /\ responses[i].worker # NoWorker
         /\ responses[i].prompt_id = responses[j].prompt_id
         /\ responses[i].ai_source = responses[j].ai_source) =>
            responses[j].created_at - responses[i].created_at
                > FRESHNESS_WINDOW

\* the worker has attempted again a prompt whose earlier record has left the
\* window, and has attempted another prompt once
C37_Witness ==
    /\ \E i, j \in 1..Len(responses) :
          /\ i < j
          /\ responses[i].worker = responses[j].worker
          /\ responses[i].prompt_id = responses[j].prompt_id
          /\ responses[i].ai_source = responses[j].ai_source
          /\ responses[j].created_at - responses[i].created_at
                 > FRESHNESS_WINDOW
    /\ \E k \in 1..Len(responses) :
          /\ responses[k].prompt_id = 2
          /\ responses[k].status = "completed"
    /\ \E w \in Workers : hist[w].fetches >= 2


\* C38: when the ChatGPT adapter is past its polling loop without having
\* run into the ceiling, the poll that left the loop found the response
\* complete: generation had begun and had finished.
C38_ChatGPTCompletion ==
    \A w \in Workers :
        (/\ ai_source[w] = "chatgpt"
         /\ pc[w] \in {"wait_end", "extract", "extracted"}
         /\ ~hist[w].ceiling) =>
            hist[w].left = "complete"


\* C39: cleanup() is idempotent and safe in any state.  It never raises:
\* after the call in the finally clause of query_with_fresh_browser control
\* goes on with the exception that was in flight, or with none, and after the
\* call in the finally clause of process_prompt the value is returned, also
\* when driver.quit() fails.  A call on a scraper without a browser calls no
\* quit and terminates nothing, and so does the second call of an item whose
\* first call quit the browser.
C39_CleanupIdempotent ==
    [][\A w \in Workers :
        /\ (pc[w] = "qfb_finally" /\ pc'[w] # "qfb_finally") =>
              /\ exc'[w] = exc[w]
              /\ pc'[w] = IF exc[w] = "" THEN "pp_update" ELSE "pp_except"
        /\ (pc[w] = "pp_finally" /\ pc'[w] # "pp_finally") =>
              /\ exc'[w] = exc[w]
              /\ retval'[w] = retval[w]
              /\ pc'[w] = "pp_return"
        /\ (/\ pc[w] \in {"qfb_finally", "pp_finally"}
            /\ pc'[w] # pc[w]
            /\ driver[w] = NoDriver) =>
              /\ browsers' = browsers
              /\ driver'[w] = NoDriver
              /\ scraper[w] => hist'[w].quit = "none"
        /\ (/\ pc[w] = "pp_finally"
            /\ pc'[w] # pc[w]
            /\ scraper[w]
            /\ hist[w].quit = "ok") =>
              /\ browsers' = browsers
              /\ hist'[w].quit = "none"]_vars

\* process_prompt has returned after two calls of cleanup(), the first of
\* which quit the browser launched for the item
C39_Witness ==
    \E w \in Workers : \E b \in 1..Len(sessions) :
        /\ pc[w] = "pp_return"
        /\ scraper[w]
        /\ sessions[b].worker = w
        /\ sessions[b].item = hist[w].items
        /\ b \notin browsers
        /\ driver[w] = NoDriver
        /\ hist[w].quit = "none"

====
